---- MODULE Spec2Model ----
(***************************************************************************)
(* nibl serve: the development loop of the static site generator.          *)
(*                                                                         *)
(*   - Run (internal/server/server.go): initial build, watcher set-up,     *)
(*     the scheduler goroutine watchForChanges, the HTTP listener;         *)
(*   - the Hub (internal/server/hub.go): register, unregister,             *)
(*     broadcastMessage, and serveWs, one goroutine per websocket client;  *)
(*   - runFullBuild (cmd/nibl/main.go) and BuildSite                       *)
(*     (internal/builder/builder.go), the build function of serve mode;    *)
(*   - liveReloadWrapper (internal/server/server.go), the response         *)
(*     interceptor.                                                        *)
(*                                                                         *)
(* Time is in milliseconds and advances in steps of TickMs. The program    *)
(* reads the clock in two places only: time.Since(lastBuildTime) compared  *)
(* with debounceDuration, and time.Sleep. The model keeps the elapsed      *)
(* times themselves, each up to the first value above the duration it is   *)
(* compared with, so that time is unbounded.                               *)
(***************************************************************************)
EXTENDS Integers, Sequences, FiniteSets, TLC

VARIABLES
  alive,          \* the process is running (no os.Exit yet)
  mainPc,         \* position of the main goroutine inside Run
  runOpts,        \* Run's local opts.CleanDestination
  watcherOpen,    \* the watcher exists, has its watches, and is not closed
  schedPc,        \* position of the goroutine watchForChanges
  schedOpts,      \* the opts.CleanDestination copied into the goroutine
  sinceLastBuild, \* time.Since(lastBuildTime) of watchForChanges
  slept,          \* time spent in the current time.Sleep
  cur,            \* the event the scheduler is handling
  queue,          \* events the watcher holds for <-watcher.Events
  activeBuilds,   \* number of invocations of buildFunc in progress
  out,            \* the output tree public/: page file -> content
  site,           \* the content files the content tree holds in this run
  rebuilds,       \* history: the latest rebuild the scheduler began
  bursts,         \* history: the bursts of qualifying events, latest first
  sinceDone,      \* history: time since the latest rebuild returned
  ignored,        \* history: the kinds of event the scheduler has passed over
  clients,        \* Hub.clients: the connections registered
  mu,             \* Hub.mu: the goroutine that holds the lock, or MuFree
  visited,        \* the entries the range loop of broadcastMessage has produced
  connPc,         \* per connection: position of its serveWs goroutine
  conn,           \* per connection: state of the websocket
  closes,         \* history: per connection, the Close calls made by the hub
  pass,           \* history: the latest broadcast pass
  httpReq,        \* the HTTP request being served and what the inner handler does
  httpResp,       \* the response the client is sent
  buildJob,       \* one run of BuildSite: the trees it finds and its options
  buildResult,    \* what that run returns and leaves on disk
  rawContent,     \* the bytes of a content file given to processContent
  processed,      \* what processContent returns for them
  relPath,        \* a page's path under the content root, given to ComputeBaseHref
  baseHref,       \* what ComputeBaseHref returns for it
  watchJob,       \* the source roots as Run finds them, and the watcher's answers
  watchResult,    \* the watches Run has registered
  staticJob,      \* one run of copyStaticAssets: the static tree it finds
  staticResult,   \* what that run returns and the files it creates
  lateDirs,       \* the directories made in the source tree since the scheduler began
  unbuilt,        \* history: those of them with a file changed since the latest build began
  errorsOpen,     \* the watcher's Errors channel is open
  errQueue,       \* errors the watcher holds for <-watcher.Errors
  logged          \* history: the scheduler has logged a watcher error

procVars == <<alive, mainPc, runOpts, watcherOpen>>
schedVars == <<schedPc, schedOpts, sinceLastBuild, slept, cur>>
buildVars == <<activeBuilds, out, site, rebuilds>>
histVars == <<bursts, sinceDone, ignored>>
hubVars == <<clients, mu, visited, connPc, conn, closes, pass>>
httpVars == <<httpReq, httpResp>>
pipeVars == <<buildJob, buildResult, rawContent, processed>>
funcVars == <<relPath, baseHref, watchJob, watchResult, staticJob, staticResult>>
treeVars == <<lateDirs, unbuilt>>
chanVars == <<errorsOpen, errQueue, logged>>

vars ==
  <<procVars, schedVars, queue, buildVars, histVars, hubVars, httpVars,
    pipeVars, funcVars, chanVars, treeVars>>

-----------------------------------------------------------------------------
(* Bounds of the model *)

\* granularity of the clock, ms
TickMs == 250
\* events the watcher can hold unread
MaxQueue == 1
\* content files, in the order filepath.Walk visits them
NumDocs == 2
\* websocket connections opened during a run
NumClients == 2
\* symbols of a request path
MaxPath == 3
\* symbols of a response body
MaxBody == 4
\* files of a content tree
MaxFiles == 2
\* pieces of a content file
MaxContent == 6
\* directory levels of a page below the content root
MaxDepth == 3
\* errors the watcher can hold unread
MaxErrors == 1
\* the files of a static tree
MaxAssets == 2
\* directories made after startup
MaxLate == 1

(* Program constants *)

DebounceDuration == 500
SettleDelay == 100

Docs == 1..NumDocs
Conns == 1..NumClients
\* self: the event comes from a write of the build function itself
NoEvent == [op |-> {}, burst |-> 0, self |-> FALSE]
\* clean: opts.CleanDestination of the call; result: "running", "ok", "err"
\* or "exit"; written: the output files the build created; broadcasts: the
\* calls of broadcastMessage since; reloaded: the clients sent a message since
NoRebuild ==
  [clean |-> FALSE, result |-> "none", written |-> {}, broadcasts |-> 0,
   reloaded |-> {}]

\* an elapsed time one tick later; values above the debounce duration are
\* all alike to the program and are not told apart
Elapse(t) == IF t > DebounceDuration THEN t ELSE t + TickMs
\* an elapsed time above every duration the program compares it with:
\* time.Since of the zero time.Time
LongAgo == DebounceDuration + TickMs
\* the elapsed time since something that has not happened
Never == LongAgo + TickMs

-----------------------------------------------------------------------------
(* fsnotify events *)

\* the operations an event may carry (fsnotify.Op is a bit set)
EventOps == {{"Write"}, {"Rename"}, {"Chmod"}}

\* event.Has(op)
Has(e, op) == op \in e.op

\* the operations that change a file's content or its name
ChangeOps == {{"Write"}, {"Rename"}}

\* a different condition: every event counts
QualifiesAll(e) == TRUE

\* the condition of server.go:107
Qualifies(e) ==
  Has(e, "Write") \/ Has(e, "Create") \/ Has(e, "Remove") \/ Has(e, "Rename")

\* a different test: the interval is over once the debounce duration has
\* elapsed
DebounceOpenAtEdge == sinceLastBuild >= DebounceDuration

\* time.Since(lastBuildTime) > debounceDuration, server.go:108
DebounceOpen == sinceLastBuild > DebounceDuration

-----------------------------------------------------------------------------
(* The build function of serve mode *)

\* What one run of the build reads from the file system. The user edits the
\* source tree while the server runs, so every read is an input.
\*   fault    the step outside the content walk that fails, if any:
\*            "config"    site.yaml is unreadable or does not parse
\*            "story"     site.biff exists and does not compile
\*            "templates" a template file does not parse
\*            "dest"      public/ cannot be created or listed
\*            "static"    the static pass fails
\*   docs     per content file: "skip" (absent, other extension, or a draft),
\*            "bad" (unreadable, not UTF-8, bad front matter), "renderfail"
\*            (the template fails after the output file was created), or
\*            "page" (it renders)
Faults == {"none", "config", "story", "templates", "dest", "static"}
DocInputs == {"skip", "bad", "renderfail", "page"}
BuildInputs ==
  [fault : Faults,
   docs : {f \in [Docs -> DocInputs] : \A d \in Docs \ site : f[d] = "skip"}]

\* the walk of builder.go:92-158 from file d on; n pages generated and the
\* output files in w created so far
RECURSIVE WalkContent(_, _, _, _, _)
WalkContent(tree, docs, d, n, w) ==
  IF d > NumDocs THEN [out |-> tree, pages |-> n, err |-> FALSE, written |-> w]
  ELSE IF docs[d] = "skip" THEN WalkContent(tree, docs, d + 1, n, w)
  ELSE IF docs[d] = "bad" THEN [out |-> tree, pages |-> 0, err |-> TRUE, written |-> w]
  ELSE IF docs[d] = "renderfail"
    THEN [out |-> [tree EXCEPT ![d] = "partial"], pages |-> 0, err |-> TRUE,
          written |-> w \cup {d}]
  ELSE WalkContent([tree EXCEPT ![d] = "page"], docs, d + 1, n + 1, w \cup {d})

\* BuildSite, builder.go:73-164
BuildSite(tree, clean, in) ==
  IF in.fault = "dest" THEN [out |-> tree, pages |-> 0, err |-> TRUE, written |-> {}]
  ELSE LET cleaned == IF clean THEN [d \in Docs |-> "none"] ELSE tree
           w == WalkContent(cleaned, in.docs, 1, 0, {})
       IN IF w.err THEN w
          ELSE IF in.fault = "static" THEN [w EXCEPT !.pages = 0, !.err = TRUE]
          ELSE w

\* runFullBuild, main.go:177-209, with getSiteConfig, main.go:211-219:
\* "exit" is os.Exit(1), "err" a returned error, "ok" a nil error
runFullBuild(tree, clean, in) ==
  IF in.fault = "config" THEN [out |-> tree, status |-> "exit", written |-> {}]
  ELSE IF in.fault = "story" THEN [out |-> tree, status |-> "err", written |-> {}]
  ELSE IF in.fault = "templates" THEN [out |-> tree, status |-> "err", written |-> {}]
  ELSE LET b == BuildSite(tree, clean, in)
       IN [out |-> b.out, status |-> IF b.err THEN "err" ELSE "ok",
           written |-> b.written]

-----------------------------------------------------------------------------
(* Run, server.go:18-93 *)

\* server.go:19-20: opts.CleanDestination = true; buildFunc(opts) is entered
RunInitialBuild ==
  /\ alive /\ mainPc = "start"
  /\ runOpts' = TRUE
  /\ activeBuilds' = activeBuilds + 1
  /\ mainPc' = "initbuild"
  /\ UNCHANGED <<alive, watcherOpen, schedVars, queue, out, site, rebuilds,
                 histVars, hubVars, httpVars, pipeVars, funcVars, chanVars, treeVars>>

\* server.go:20-22: the initial build returns (or exits the process)
RunInitialBuildDone ==
  /\ alive /\ mainPc = "initbuild"
  /\ \E in \in BuildInputs :
       LET r == runFullBuild(out, runOpts, in) IN
         /\ out' = r.out
         /\ alive' = (r.status # "exit")
         /\ activeBuilds' = IF r.status = "exit" THEN activeBuilds ELSE activeBuilds - 1
         /\ mainPc' = IF r.status = "ok" THEN "newwatcher"
                      ELSE IF r.status = "err" THEN "failed" ELSE mainPc
  /\ UNCHANGED <<runOpts, watcherOpen, schedVars, queue, site, rebuilds, histVars,
                 hubVars, httpVars, pipeVars, funcVars, chanVars, treeVars>>

\* a different Run: the error of the watcher set-up is not looked at
RunWatchIgnoreError ==
  /\ alive /\ mainPc = "newwatcher"
  /\ \E ok \in BOOLEAN :
       /\ watcherOpen' = ok
       /\ errorsOpen' = ok
       /\ mainPc' = "spawn"
  /\ UNCHANGED <<alive, runOpts, schedVars, queue, buildVars, histVars, hubVars, httpVars,
                 pipeVars, funcVars, errQueue, logged, treeVars>>

\* server.go:24-76: newHub, fsnotify.NewWatcher and the watch registration;
\* a watcher that cannot be created or a path that cannot be stat'ed
\* makes Run return an error
RunWatch ==
  /\ alive /\ mainPc = "newwatcher"
  /\ \E ok \in BOOLEAN :
       /\ watcherOpen' = ok
       /\ errorsOpen' = ok
       /\ mainPc' = IF ok THEN "spawn" ELSE "failed"
  /\ UNCHANGED <<alive, runOpts, schedVars, queue, buildVars, histVars, hubVars, httpVars,
                 pipeVars, funcVars, errQueue, logged, treeVars>>

\* a different Run: the goroutine gets the options of the initial build
RunStartSchedulerKeepClean ==
  /\ alive /\ mainPc = "spawn"
  /\ schedOpts' = runOpts
  /\ schedPc' = "select"
  /\ mainPc' = "listen"
  /\ UNCHANGED <<alive, runOpts, watcherOpen, sinceLastBuild, slept, cur, queue,
                 buildVars, histVars, hubVars, httpVars, pipeVars, funcVars, chanVars, treeVars>>

\* a different Run: the goroutine is started first and the initial build
\* follows
RunBuildAfterStart ==
  /\ alive /\ mainPc = "spawn"
  /\ schedOpts' = FALSE
  /\ schedPc' = "select"
  /\ activeBuilds' = activeBuilds + 1
  /\ mainPc' = "initbuild"
  /\ UNCHANGED <<alive, runOpts, watcherOpen, sinceLastBuild, slept, cur, queue, out,
                 site, rebuilds, histVars, hubVars, httpVars, pipeVars, funcVars, chanVars, treeVars>>

\* server.go:78-79: opts.CleanDestination = false; go watchForChanges(...)
RunStartScheduler ==
  /\ alive /\ mainPc = "spawn"
  /\ runOpts' = FALSE
  /\ schedOpts' = FALSE
  /\ schedPc' = "select"
  /\ mainPc' = "listen"
  /\ UNCHANGED <<alive, watcherOpen, sinceLastBuild, slept, cur, queue, buildVars,
                 histVars, hubVars, httpVars, pipeVars, funcVars, chanVars, treeVars>>

\* server.go:81-92: http.ListenAndServe; when the port cannot be bound it
\* returns, and the deferred watcher.Close() of server.go:30 runs
RunListen ==
  /\ alive /\ mainPc = "listen"
  /\ \E bound \in BOOLEAN :
       mainPc' = IF bound THEN "serving" ELSE "failed"
  /\ UNCHANGED <<alive, runOpts, watcherOpen, schedVars, queue, buildVars, histVars,
                 hubVars, httpVars, pipeVars, funcVars, chanVars, treeVars>>

\* watcher.Close() has been called, server.go:30
WatcherClosing == mainPc = "failed" /\ (watcherOpen \/ errorsOpen)

\* the closed watcher closes its Events channel; what it held is lost
WatcherCloseEvents ==
  /\ alive /\ WatcherClosing /\ watcherOpen
  /\ watcherOpen' = FALSE
  /\ queue' = <<>>
  /\ UNCHANGED <<alive, mainPc, runOpts, schedVars, buildVars, histVars, hubVars,
                 httpVars, pipeVars, funcVars, chanVars, treeVars>>

\* the closed watcher closes its Errors channel
WatcherCloseErrors ==
  /\ alive /\ WatcherClosing /\ errorsOpen
  /\ errorsOpen' = FALSE
  /\ errQueue' = 0
  /\ UNCHANGED <<procVars, schedVars, queue, buildVars, histVars, hubVars, httpVars,
                 pipeVars, funcVars, logged, treeVars>>

\* main.go:42-45: Run returned an error, main calls os.Exit(1)
MainExit ==
  /\ alive /\ mainPc = "failed"
  /\ alive' = FALSE
  /\ UNCHANGED <<mainPc, runOpts, watcherOpen, schedVars, queue, buildVars,
                 histVars, hubVars, httpVars, pipeVars, funcVars, chanVars, treeVars>>

-----------------------------------------------------------------------------
(* The environment: the file system and the clock *)

\* burst i (1 is the latest) has an event the scheduler has not yet dropped
\* or answered with a call of buildFunc
Pending(i) ==
  \/ \E k \in 1..Len(queue) : queue[k].burst = i
  \/ schedPc = "sleep" /\ cur.burst = i

\* a qualifying event arriving now joins the latest burst while it is within
\* the debounce interval of that burst's first event
JoinsBurst ==
  /\ bursts # <<>>
  /\ bursts[1].age <= DebounceDuration

\* age: time since the first event; many: a second event has joined; taken:
\* the scheduler has received the first event, firstOpen: and more than the
\* debounce duration had then elapsed since lastBuildTime; builds: the calls
\* of buildFunc for events of the burst
NewBurst ==
  [age |-> 0, many |-> FALSE, taken |-> FALSE, firstOpen |-> FALSE, builds |-> 0]

\* the bursts still of interest when a new one begins: those with an event
\* pending, and the ones between them
RECURSIVE OldestPending(_)
OldestPending(i) ==
  IF i = 0 THEN 0 ELSE IF Pending(i) THEN i ELSE OldestPending(i - 1)

\* an event's burst index once a new burst has begun
Older(e) == IF e.burst = 0 THEN e ELSE [e EXCEPT !.burst = @ + 1]

\* a file system notification of one of the operations ops reaches the watcher
Notify(ops) ==
  /\ alive /\ watcherOpen /\ Len(queue) < MaxQueue
  /\ \E op \in ops : queue' = Append(queue, [op |-> op, burst |-> 0, self |-> FALSE])
  /\ UNCHANGED <<procVars, schedVars, buildVars, histVars, hubVars, httpVars, pipeVars, funcVars, chanVars, treeVars>>

\* any notification
FsEvent == Notify(EventOps)

\* a notification of a change
FsChange == Notify(ChangeOps)

\* a notification of a write
FsWrite == Notify({{"Write"}})

\* what os.Create and the writes of story.Compile do to a page file
StoryOps == {{"Create"}, {"Write"}}

\* main.go:182 and story.Compile (server.go:324-393): the build function
\* called by the scheduler writes a story page into the watched content
\* tree, and the watcher gets a notification of it
CompileWrite ==
  /\ alive /\ watcherOpen /\ schedPc = "build" /\ Len(queue) < MaxQueue
  /\ \E op \in StoryOps : queue' = Append(queue, [op |-> op, burst |-> 0, self |-> TRUE])
  /\ UNCHANGED <<procVars, schedVars, buildVars, histVars, hubVars, httpVars, pipeVars, funcVars, chanVars, treeVars>>

\* the same, with the history of bursts kept
FsEventInBurst ==
  /\ alive /\ watcherOpen /\ Len(queue) < MaxQueue
  /\ \E op \in EventOps :
       LET e == [op |-> op, burst |-> 0, self |-> FALSE] IN
         IF ~Qualifies(e)
           THEN /\ queue' = Append(queue, e)
                /\ UNCHANGED <<bursts, cur>>
         ELSE IF JoinsBurst
           THEN /\ queue' = Append(queue, [e EXCEPT !.burst = 1])
                /\ bursts' = [bursts EXCEPT ![1].many = TRUE]
                /\ UNCHANGED cur
         ELSE /\ queue' = Append([k \in 1..Len(queue) |-> Older(queue[k])],
                                 [e EXCEPT !.burst = 1])
              /\ cur' = Older(cur)
              /\ bursts' = <<NewBurst>> \o SubSeq(bursts, 1, OldestPending(Len(bursts)))
  /\ UNCHANGED <<procVars, schedPc, schedOpts, sinceLastBuild, slept, buildVars,
                 sinceDone, ignored, hubVars, httpVars, pipeVars, funcVars, chanVars, treeVars>>

\* the watcher reports an error: an event queue overflow, a failed read
WatcherError ==
  /\ alive /\ errorsOpen /\ ~WatcherClosing /\ errQueue < MaxErrors
  /\ errQueue' = errQueue + 1
  /\ UNCHANGED <<procVars, schedVars, queue, buildVars, histVars, hubVars, httpVars,
                 pipeVars, funcVars, errorsOpen, logged, treeVars>>

\* the scheduler blocked in select with an event or an error ready takes it
\* at once
SchedReady ==
  /\ alive /\ schedPc = "select"
  /\ \/ watcherOpen /\ queue # <<>>
     \/ errorsOpen /\ errQueue > 0

\* the clock advances by one tick; binding the port and leaving Run take no time
Tick ==
  /\ alive /\ mainPc = "serving"
  /\ ~SchedReady
  /\ sinceLastBuild' = Elapse(sinceLastBuild)
  /\ slept' = IF schedPc = "sleep" /\ slept < SettleDelay THEN slept + TickMs ELSE slept
  /\ bursts' = [i \in 1..Len(bursts) |-> [bursts[i] EXCEPT !.age = Elapse(@)]]
  /\ sinceDone' = Elapse(sinceDone)
  /\ UNCHANGED <<procVars, schedPc, schedOpts, cur, queue, buildVars, ignored, hubVars, httpVars,
                 pipeVars, funcVars, chanVars, treeVars>>

-----------------------------------------------------------------------------
(* watchForChanges, server.go:95-128 *)

\* history: the scheduler took event e off the channel
NoteTaken(e) ==
  IF e.burst = 0 THEN bursts
  ELSE [bursts EXCEPT ![e.burst].taken = TRUE,
                      ![e.burst].firstOpen =
                         IF bursts[e.burst].taken THEN @ ELSE DebounceOpen]

\* history: the scheduler passes over event e, which calls for no rebuild
NoteIgnored(e) ==
  IF ~Qualifies(e) THEN ignored \cup {"metadata"}
  ELSE IF e.self /\ ~DebounceOpen THEN ignored \cup {"own"}
  ELSE ignored

\* history: buildFunc is called for event e
NoteBuild(e) ==
  IF e.burst = 0 THEN bursts ELSE [bursts EXCEPT ![e.burst].builds = @ + 1]

\* a different loop: no test of the time since lastBuildTime
SchedTakeNoDebounce ==
  /\ alive /\ schedPc = "select" /\ watcherOpen /\ queue # <<>>
  /\ LET e == Head(queue) IN
       /\ queue' = Tail(queue)
       /\ bursts' = NoteTaken(e)
       /\ ignored' = NoteIgnored(e)
       /\ IF Qualifies(e)
            THEN /\ schedPc' = "sleep"
                 /\ slept' = 0
                 /\ cur' = e
            ELSE UNCHANGED <<schedPc, slept, cur>>
  /\ UNCHANGED <<procVars, schedOpts, sinceLastBuild, buildVars, sinceDone, hubVars,
                 httpVars, pipeVars, funcVars, chanVars, treeVars>>

\* server.go:101-109: an event is received; a qualifying one past the
\* debounce interval starts the settle delay, any other is dropped
SchedTake ==
  /\ alive /\ schedPc = "select" /\ watcherOpen /\ queue # <<>>
  /\ LET e == Head(queue) IN
       /\ queue' = Tail(queue)
       /\ bursts' = NoteTaken(e)
       /\ ignored' = NoteIgnored(e)
       /\ IF Qualifies(e) /\ DebounceOpen
            THEN /\ schedPc' = "sleep"
                 /\ slept' = 0
                 /\ cur' = e
            ELSE UNCHANGED <<schedPc, slept, cur>>
  /\ UNCHANGED <<procVars, schedOpts, sinceLastBuild, buildVars, sinceDone, hubVars,
                 httpVars, pipeVars, funcVars, chanVars, treeVars>>

\* server.go:102-104: the event channel is closed, the goroutine returns
SchedClosed ==
  /\ alive /\ schedPc = "select" /\ ~watcherOpen
  /\ schedPc' = "returned"
  /\ UNCHANGED <<procVars, schedOpts, sinceLastBuild, slept, cur, queue, buildVars,
                 histVars, hubVars, httpVars, pipeVars, funcVars, chanVars, treeVars>>

\* a different loop: a watcher error ends it
SchedErrorStops ==
  /\ alive /\ schedPc = "select" /\ errorsOpen /\ errQueue > 0
  /\ errQueue' = errQueue - 1
  /\ logged' = TRUE
  /\ schedPc' = "returned"
  /\ UNCHANGED <<procVars, schedOpts, sinceLastBuild, slept, cur, queue, buildVars,
                 histVars, hubVars, httpVars, pipeVars, funcVars, errorsOpen, treeVars>>

\* server.go:121-125: an error is received and logged
SchedError ==
  /\ alive /\ schedPc = "select" /\ errorsOpen /\ errQueue > 0
  /\ errQueue' = errQueue - 1
  /\ logged' = TRUE
  /\ UNCHANGED <<procVars, schedVars, queue, buildVars, histVars, hubVars, httpVars,
                 pipeVars, funcVars, errorsOpen, treeVars>>

\* server.go:122-124: the error channel is closed, the goroutine returns
SchedErrorsClosed ==
  /\ alive /\ schedPc = "select" /\ ~errorsOpen
  /\ schedPc' = "returned"
  /\ UNCHANGED <<procVars, schedOpts, sinceLastBuild, slept, cur, queue, buildVars,
                 histVars, hubVars, httpVars, pipeVars, funcVars, chanVars, treeVars>>

\* server.go:109-112: the sleep is over, buildFunc(opts) is entered
SchedBuild ==
  /\ alive /\ schedPc = "sleep" /\ slept >= SettleDelay
  /\ schedPc' = "build"
  /\ activeBuilds' = activeBuilds + 1
  /\ bursts' = NoteBuild(cur)
  /\ cur' = NoEvent
  /\ rebuilds' = [NoRebuild EXCEPT !.clean = schedOpts, !.result = "running"]
  /\ unbuilt' = {}
  /\ UNCHANGED <<procVars, schedOpts, sinceLastBuild, slept, queue, out, site,
                 sinceDone, ignored, hubVars, httpVars, pipeVars, funcVars, chanVars, lateDirs>>

\* a different loop: the broadcast is left out
SchedBuildDoneNoBroadcast ==
  /\ alive /\ schedPc = "build"
  /\ \E in \in BuildInputs :
       LET r == runFullBuild(out, schedOpts, in) IN
         /\ out' = r.out
         /\ alive' = (r.status # "exit")
         /\ rebuilds' = [rebuilds EXCEPT !.result = r.status, !.written = r.written]
         /\ activeBuilds' = IF r.status = "exit" THEN activeBuilds ELSE activeBuilds - 1
         /\ sinceDone' = IF r.status = "exit" THEN sinceDone ELSE 0
         /\ schedPc' = IF r.status = "exit" THEN "build" ELSE "select"
         /\ sinceLastBuild' = IF r.status = "exit" THEN sinceLastBuild ELSE 0
  /\ UNCHANGED <<mainPc, runOpts, watcherOpen, schedOpts, slept, cur, queue, site,
                 bursts, ignored, hubVars, httpVars, pipeVars, funcVars, chanVars, treeVars>>

\* a different loop: the broadcast follows the build whatever it returned
SchedBuildDoneAlwaysBroadcast ==
  /\ alive /\ schedPc = "build"
  /\ \E in \in BuildInputs :
       LET r == runFullBuild(out, schedOpts, in) IN
         /\ out' = r.out
         /\ alive' = (r.status # "exit")
         /\ rebuilds' = [rebuilds EXCEPT !.result = r.status, !.written = r.written]
         /\ activeBuilds' = IF r.status = "exit" THEN activeBuilds ELSE activeBuilds - 1
         /\ sinceDone' = IF r.status = "exit" THEN sinceDone ELSE 0
         /\ schedPc' = IF r.status = "exit" THEN "build" ELSE "broadcast"
  /\ UNCHANGED <<mainPc, runOpts, watcherOpen, schedOpts, sinceLastBuild, slept, cur,
                 queue, site, bursts, ignored, hubVars, httpVars, pipeVars, funcVars, chanVars, treeVars>>

\* server.go:112-118: buildFunc returns (or exits the process). An error is
\* logged and lastBuildTime is set; success goes on to the broadcast
SchedBuildDone ==
  /\ alive /\ schedPc = "build"
  /\ \E in \in BuildInputs :
       LET r == runFullBuild(out, schedOpts, in) IN
         /\ out' = r.out
         /\ alive' = (r.status # "exit")
         /\ rebuilds' = [rebuilds EXCEPT !.result = r.status, !.written = r.written]
         /\ activeBuilds' = IF r.status = "exit" THEN activeBuilds ELSE activeBuilds - 1
         /\ sinceDone' = IF r.status = "exit" THEN sinceDone ELSE 0
         /\ schedPc' = IF r.status = "ok" THEN "broadcast"
                       ELSE IF r.status = "err" THEN "select" ELSE "build"
         /\ sinceLastBuild' = IF r.status = "err" THEN 0 ELSE sinceLastBuild
  /\ UNCHANGED <<mainPc, runOpts, watcherOpen, schedOpts, slept, cur, queue, site,
                 bursts, ignored, hubVars, httpVars, pipeVars, funcVars, chanVars, treeVars>>

-----------------------------------------------------------------------------
(* The Hub, hub.go:22-73 *)

MuFree == <<"free", 0>>
SchedGoroutine == <<"watchForChanges", 0>>
ServeWsGoroutine(c) == <<"serveWs", c>>

\* the token of server.go:116
ReloadMessage == "reload"

NoPass ==
  [msg |-> "", snap |-> {}, sent |-> [c \in Conns |-> 0],
   got |-> [c \in Conns |-> <<>>]]

\* client.WriteMessage, hub.go:65: it succeeds on a connection that is open
\* and returns an error on one that is broken
WriteFails(c) == conn[c] # "open"

\* a different unregister: no look-up before the delete and the Close
unregisterUnchecked(c) ==
  [clients |-> clients \ {c},
   conn |-> [conn EXCEPT ![c] = "closed"],
   closes |-> [closes EXCEPT ![c] = @ + 1]]

\* the body of unregister, hub.go:53-57
unregister(c) ==
  IF c \in clients
    THEN [clients |-> clients \ {c},
          conn |-> [conn EXCEPT ![c] = "closed"],
          closes |-> [closes EXCEPT ![c] = @ + 1]]
    ELSE [clients |-> clients, conn |-> conn, closes |-> closes]

\* a different broadcastMessage: the lock is not taken
SchedBroadcastUnlocked ==
  /\ alive /\ schedPc = "broadcast"
  /\ visited' = {}
  /\ pass' = [NoPass EXCEPT !.msg = ReloadMessage, !.snap = clients]
  /\ rebuilds' = [rebuilds EXCEPT !.broadcasts = @ + 1]
  /\ schedPc' = "sending"
  /\ UNCHANGED <<procVars, schedOpts, sinceLastBuild, slept, cur, queue,
                 activeBuilds, out, site, histVars, clients, mu, connPc, conn, closes,
                 httpVars, pipeVars, funcVars, chanVars, treeVars>>

\* hub.go:62: broadcastMessage is entered at server.go:116 and takes the lock
SchedBroadcastLock ==
  /\ alive /\ schedPc = "broadcast" /\ mu = MuFree
  /\ mu' = SchedGoroutine
  /\ visited' = {}
  /\ pass' = [NoPass EXCEPT !.msg = ReloadMessage, !.snap = clients]
  /\ rebuilds' = [rebuilds EXCEPT !.broadcasts = @ + 1]
  /\ schedPc' = "sending"
  /\ UNCHANGED <<procVars, schedOpts, sinceLastBuild, slept, cur, queue,
                 activeBuilds, out, site, histVars, clients, connPc, conn, closes, httpVars, pipeVars, funcVars, chanVars, treeVars>>

\* a different loop body: a failed write is logged and nothing else
SchedBroadcastSendKeep ==
  /\ alive /\ schedPc = "sending"
  /\ \E c \in clients \ visited :
       /\ visited' = visited \cup {c}
       /\ pass' = IF WriteFails(c) THEN [pass EXCEPT !.sent[c] = @ + 1]
                  ELSE [pass EXCEPT !.sent[c] = @ + 1, !.got[c] = Append(@, pass.msg)]
  /\ UNCHANGED <<procVars, schedVars, queue, buildVars, histVars, clients, mu, connPc,
                 conn, closes, httpVars, pipeVars, funcVars, chanVars, treeVars>>

\* hub.go:64-71: the range loop produces an entry of the map it has not yet
\* produced and the message is written to it; a client whose write fails is
\* closed and deleted
SchedBroadcastSend ==
  /\ alive /\ schedPc = "sending"
  /\ \E c \in clients \ visited :
       /\ visited' = visited \cup {c}
       /\ IF WriteFails(c)
            THEN /\ pass' = [pass EXCEPT !.sent[c] = @ + 1]
                 /\ conn' = [conn EXCEPT ![c] = "closed"]
                 /\ closes' = [closes EXCEPT ![c] = @ + 1]
                 /\ clients' = clients \ {c}
                 /\ UNCHANGED rebuilds
            ELSE /\ pass' = [pass EXCEPT !.sent[c] = @ + 1,
                                         !.got[c] = Append(@, pass.msg)]
                 /\ rebuilds' = [rebuilds EXCEPT !.reloaded = @ \cup {c}]
                 /\ UNCHANGED <<conn, closes, clients>>
  /\ UNCHANGED <<procVars, schedVars, queue, activeBuilds, out, site, histVars, mu,
                 connPc, httpVars, pipeVars, funcVars, chanVars, treeVars>>

\* a different loop: lastBuildTime is not set after a broadcast
SchedBroadcastDoneNoStamp ==
  /\ alive /\ schedPc = "sending" /\ clients \subseteq visited
  /\ mu' = MuFree
  /\ schedPc' = "select"
  /\ UNCHANGED <<procVars, schedOpts, sinceLastBuild, slept, cur, queue, buildVars,
                 histVars, clients, visited, connPc, conn, closes, pass, httpVars, pipeVars, funcVars, chanVars, treeVars>>

\* hub.go:72-73 and server.go:118: the loop is over, the lock is released,
\* and lastBuildTime is set
SchedBroadcastDone ==
  /\ alive /\ schedPc = "sending" /\ clients \subseteq visited
  /\ mu' = MuFree
  /\ sinceLastBuild' = 0
  /\ schedPc' = "select"
  /\ UNCHANGED <<procVars, schedOpts, slept, cur, queue, buildVars, histVars,
                 clients, visited, connPc, conn, closes, pass, httpVars, pipeVars, funcVars, chanVars, treeVars>>

-----------------------------------------------------------------------------
(* serveWs, hub.go:76-93: one goroutine per websocket request *)

\* hub.go:77-81: the request is upgraded, or the handler returns
ServeWsUpgrade(c) ==
  /\ alive /\ mainPc = "serving" /\ connPc[c] = "idle"
  /\ \E ok \in BOOLEAN :
       /\ conn' = [conn EXCEPT ![c] = IF ok THEN "open" ELSE @]
       /\ connPc' = [connPc EXCEPT ![c] = IF ok THEN "register" ELSE "done"]
  /\ UNCHANGED <<procVars, schedVars, queue, buildVars, histVars, clients, mu,
                 visited, closes, pass, httpVars, pipeVars, funcVars, chanVars, treeVars>>

\* hub.go:43: register takes the lock
ServeWsRegisterLock(c) ==
  /\ alive /\ connPc[c] = "register" /\ mu = MuFree
  /\ mu' = ServeWsGoroutine(c)
  /\ connPc' = [connPc EXCEPT ![c] = "registering"]
  /\ UNCHANGED <<procVars, schedVars, queue, buildVars, histVars, clients,
                 visited, conn, closes, pass, httpVars, pipeVars, funcVars, chanVars, treeVars>>

\* hub.go:44-47: the connection is added and the lock released
ServeWsRegister(c) ==
  /\ alive /\ connPc[c] = "registering"
  /\ clients' = clients \cup {c}
  /\ mu' = MuFree
  /\ connPc' = [connPc EXCEPT ![c] = "reading"]
  /\ UNCHANGED <<procVars, schedVars, queue, buildVars, histVars, visited, conn,
                 closes, pass, httpVars, pipeVars, funcVars, chanVars, treeVars>>

\* the peer goes away: the tab is closed or the network fails
PeerGone(c) ==
  /\ alive /\ conn[c] = "open"
  /\ conn' = [conn EXCEPT ![c] = "broken"]
  /\ UNCHANGED <<procVars, schedVars, queue, buildVars, histVars, clients, mu,
                 visited, connPc, closes, pass, httpVars, pipeVars, funcVars, chanVars, treeVars>>

\* a different serveWs: the loop is left without the deferred unregister
ServeWsReadErrorNoUnregister(c) ==
  /\ alive /\ connPc[c] = "reading" /\ conn[c] # "open"
  /\ connPc' = [connPc EXCEPT ![c] = "done"]
  /\ UNCHANGED <<procVars, schedVars, queue, buildVars, histVars, clients, mu,
                 visited, conn, closes, pass, httpVars, pipeVars, funcVars, chanVars, treeVars>>

\* hub.go:87-92: ReadMessage returns an error on a connection that is broken
\* or closed, and blocks on an open one, since the client never sends
ServeWsReadError(c) ==
  /\ alive /\ connPc[c] = "reading" /\ conn[c] # "open"
  /\ connPc' = [connPc EXCEPT ![c] = "unregister"]
  /\ UNCHANGED <<procVars, schedVars, queue, buildVars, histVars, clients, mu,
                 visited, conn, closes, pass, httpVars, pipeVars, funcVars, chanVars, treeVars>>

\* a different unregister: it does not wait for the lock
ServeWsUnregisterNoWait(c) ==
  /\ alive /\ connPc[c] = "unregister"
  /\ mu' = ServeWsGoroutine(c)
  /\ connPc' = [connPc EXCEPT ![c] = "unregistering"]
  /\ UNCHANGED <<procVars, schedVars, queue, buildVars, histVars, clients,
                 visited, conn, closes, pass, httpVars, pipeVars, funcVars, chanVars, treeVars>>

\* hub.go:86, 51: the deferred unregister takes the lock
ServeWsUnregisterLock(c) ==
  /\ alive /\ connPc[c] = "unregister" /\ mu = MuFree
  /\ mu' = ServeWsGoroutine(c)
  /\ connPc' = [connPc EXCEPT ![c] = "unregistering"]
  /\ UNCHANGED <<procVars, schedVars, queue, buildVars, histVars, clients,
                 visited, conn, closes, pass, httpVars, pipeVars, funcVars, chanVars, treeVars>>

\* hub.go:52-58: the body of unregister, and the lock released
ServeWsUnregister(c) ==
  /\ alive /\ connPc[c] = "unregistering"
  /\ LET u == unregister(c) IN
       /\ clients' = u.clients
       /\ conn' = u.conn
       /\ closes' = u.closes
  /\ mu' = MuFree
  /\ connPc' = [connPc EXCEPT ![c] = "done"]
  /\ UNCHANGED <<procVars, schedVars, queue, buildVars, histVars, visited, pass, httpVars, pipeVars, funcVars, chanVars, treeVars>>

\* hub.go:50-58 called once more, by any goroutine, for a connection that
\* exists: lock, body and unlock. The call waits while the lock is held.
UnregisterAgain(c) ==
  /\ alive /\ conn[c] # "none" /\ mu = MuFree
  /\ LET u == unregister(c) IN
       /\ clients' = u.clients
       /\ conn' = u.conn
       /\ closes' = u.closes
  /\ UNCHANGED <<procVars, schedVars, queue, buildVars, histVars, mu, visited,
                 connPc, pass, httpVars, pipeVars, funcVars, chanVars, treeVars>>

\* server.go:101-115 in short, for the study of the Hub alone: an event was
\* taken and the rebuild succeeded
RebuildSucceeded ==
  /\ alive /\ schedPc = "select"
  /\ rebuilds' = [NoRebuild EXCEPT !.result = "ok"]
  /\ schedPc' = "broadcast"
  /\ UNCHANGED <<procVars, schedOpts, sinceLastBuild, slept, cur, queue,
                 activeBuilds, out, site, histVars, hubVars, httpVars, pipeVars, funcVars, chanVars, treeVars>>

-----------------------------------------------------------------------------
(* liveReloadWrapper, server.go:130-165 *)

\* A body is a sequence of symbols: "<" ">" spell the closing body tag, "s"
\* is the text of liveReloadScript, "x" any other text. A path is a sequence
\* of the symbols "/" "a" "." "html".
CloseTag == <<"<", ">">>
liveReloadScript == <<"s">>
HtmlSuffix == <<".", "html">>
Slash == <<"/">>
StatusOK == 200
StatusNotFound == 404

\* sequences over S of length n, and of length at most n
RECURSIVE SeqsOfLen(_, _)
SeqsOfLen(S, n) ==
  IF n = 0 THEN {<<>>}
  ELSE {Append(q, x) : q \in SeqsOfLen(S, n - 1), x \in S}
SeqsUpTo(S, n) == UNION {SeqsOfLen(S, k) : k \in 0..n}

\* strings.HasSuffix
HasSuffix(str, suffix) ==
  /\ Len(str) >= Len(suffix)
  /\ SubSeq(str, Len(str) - Len(suffix) + 1, Len(str)) = suffix

\* s has sep at position i
OccursAt(str, sep, i) ==
  /\ i >= 1
  /\ i + Len(sep) - 1 <= Len(str)
  /\ SubSeq(str, i, i + Len(sep) - 1) = sep

\* bytes.Index: the position of the first instance of sep, 0 if there is none
Index(str, sep) ==
  IF \E i \in 1..Len(str) : OccursAt(str, sep, i)
    THEN CHOOSE i \in 1..Len(str) :
           /\ OccursAt(str, sep, i)
           /\ \A j \in 1..(i - 1) : ~OccursAt(str, sep, j)
    ELSE 0

\* bytes.Replace(str, old, new, 1): the first instance of old replaced
ReplaceFirst(str, old, new) ==
  LET i == Index(str, old) IN
    IF i = 0 THEN str
    ELSE SubSeq(str, 1, i - 1) \o new \o SubSeq(str, i + Len(old), Len(str))

\* http.Header: per key the values in the order they were added. The value
\* of Content-Length is the number its decimal digits denote.
NoHeader == [cacheControl |-> <<>>, pragma |-> <<>>, expires |-> <<>>,
             contentLength |-> <<>>]

\* server.go:132-134
CacheHeaders(h) ==
  [h EXCEPT !.cacheControl = <<"no-cache, no-store, must-revalidate">>,
            !.pragma = <<"no-cache">>,
            !.expires = <<"0">>]

\* server.go:136
IsHTML(path) == HasSuffix(path, HtmlSuffix) \/ HasSuffix(path, Slash)

\* next.ServeHTTP: the inner handler writes status and body to the writer
\* it is given and, when it knows the length, sets Content-Length in the
\* header of that writer
InnerServe(h, in) ==
  [status |-> in.status,
   body |-> in.body,
   header |-> IF in.setsLength THEN [h EXCEPT !.contentLength = <<Len(in.body)>>]
              ELSE h]

\* server.go:146-150: every value the inner handler set is added
CopyHeaders(h, from) ==
  [cacheControl |-> h.cacheControl \o from.cacheControl,
   pragma |-> h.pragma \o from.pragma,
   expires |-> h.expires \o from.expires,
   contentLength |-> h.contentLength \o from.contentLength]

\* a different substitution: the tag is not put back after the script
InjectOverTag(body) == ReplaceFirst(body, CloseTag, liveReloadScript)

\* a different substitution: the script is put after the tag
InjectAfter(body) == ReplaceFirst(body, CloseTag, CloseTag \o liveReloadScript)

\* server.go:160
Inject(body) == ReplaceFirst(body, CloseTag, liveReloadScript \o CloseTag)

\* a different handler: the script is put in whatever the status
liveReloadWrapperAnyStatus(path, in) ==
  LET w == CacheHeaders(NoHeader) IN
    IF ~IsHTML(path) THEN InnerServe(w, in)
    ELSE LET iw == InnerServe(NoHeader, in)
             copied == CopyHeaders(w, iw.header)
             injectedBody == Inject(iw.body)
         IN [status |-> iw.status,
             body |-> injectedBody,
             header |-> [copied EXCEPT !.contentLength = <<Len(injectedBody)>>]]

\* the handler liveReloadWrapper returns, server.go:131-164: the response
\* that reaches the client for a request to path, the inner handler doing in
liveReloadWrapper(path, in) ==
  LET w == CacheHeaders(NoHeader) IN
    IF ~IsHTML(path) THEN InnerServe(w, in)
    ELSE LET iw == InnerServe(NoHeader, in)
             copied == CopyHeaders(w, iw.header)
         IN IF iw.status # StatusOK
              THEN [status |-> iw.status, body |-> iw.body, header |-> copied]
              ELSE LET injectedBody == Inject(iw.body) IN
                     [status |-> iw.status,
                      body |-> injectedBody,
                      header |-> [copied EXCEPT !.contentLength = <<Len(injectedBody)>>]]

NoRequest == [path |-> <<>>, status |-> 0, body |-> <<>>, setsLength |-> FALSE]
NoResponse == [status |-> 0, body |-> <<>>, header |-> NoHeader]

Paths == {Slash \o q : q \in SeqsUpTo({"/", "a", ".", "html"}, MaxPath - 1)}
Bodies == SeqsUpTo({"<", ">", "s", "x"}, MaxBody)
Requests ==
  [path : Paths, status : {StatusOK, StatusNotFound}, body : Bodies,
   setsLength : BOOLEAN]

\* the wrapped handler serves the request
ServeHTTP ==
  /\ alive /\ mainPc = "serving"
  /\ httpReq # NoRequest /\ httpResp = NoResponse
  /\ httpResp' = liveReloadWrapper(httpReq.path, httpReq)
  /\ UNCHANGED <<procVars, schedVars, queue, buildVars, histVars, hubVars, httpReq, pipeVars, funcVars, chanVars, treeVars>>

-----------------------------------------------------------------------------
(* BuildSite file by file, builder.go:73-164 *)

\* A content file is at a path relative to the content root: the directory
\* (the root itself or blog/), the name without its extension, and the
\* extension filepath.Ext gives. What the run finds when it handles the file
\* is its kind:
\*   "plain"       it reads, is UTF-8, and its front matter, if any, parses
\*   "draft"       the same, with draft: true in the front matter
\*   "unreadable"  os.ReadFile fails
\*   "notutf8"     utf8.Valid is false
\*   "badfm"       processContent returns an error
\*   "renderfail"  as "plain", and the template fails on the page
ContentDirs == {<<>>, <<"blog">>}
Slugs == {"about", "index", "post"}
Exts == {".html", ".md", ".txt"}
SrcPaths == [dir : ContentDirs, slug : Slugs, ext : Exts]
FileKinds == {"plain", "draft", "unreadable", "notutf8", "badfm", "renderfail"}
NoPath == [dir |-> <<>>, slug |-> "", ext |-> ""]
NoErr == [kind |-> "none", path |-> NoPath]

\* the content trees of at most MaxFiles files
ContentTrees ==
  UNION {[P -> FileKinds] : P \in {Q \in SUBSET SrcPaths : Cardinality(Q) <= MaxFiles}}

\* the entry names in lexical order, as filepath.Walk sorts them
NameOrder == <<"about", "blog", "index", "post">>
ExtOrder == <<".html", ".md", ".txt">>
RankIn(order, x) == CHOOSE i \in 1..Len(order) : order[i] = x

\* the names on the way to a file, as their places in the lexical order
WalkKey(p) ==
  [i \in 1..Len(p.dir) |-> RankIn(NameOrder, p.dir[i])]
    \o <<RankIn(NameOrder, p.slug), RankIn(ExtOrder, p.ext)>>

\* filepath.Walk reaches p before q
Before(p, q) ==
  LET a == WalkKey(p)
      b == WalkKey(q)
  IN \E i \in 1..Len(a) :
       /\ i <= Len(b)
       /\ a[i] < b[i]
       /\ \A j \in 1..(i - 1) : a[j] = b[j]

\* the files of P in the order filepath.Walk reaches them
RECURSIVE WalkOrder(_)
WalkOrder(P) ==
  IF P = {} THEN <<>>
  ELSE LET first == CHOOSE p \in P : \A q \in P \ {p} : Before(p, q)
       IN <<first>> \o WalkOrder(P \ {first})

\* builder.go:99-102
Recognized(p) == p.ext = ".html" \/ p.ext = ".md"

\* strings.TrimSuffix(relPath, ext), builder.go:122 and 126: the relative
\* path without the extension
TrimExt(p) == [dir |-> p.dir, slug |-> p.slug]

\* isExceptionPage, builder.go:209-213: the argument is compared, whole,
\* with the three names
isExceptionPage(slug) ==
  \/ slug = [dir |-> <<>>, slug |-> "index"]
  \/ slug = [dir |-> <<>>, slug |-> "about"]
  \/ slug = [dir |-> <<>>, slug |-> "menu"]

\* builder.go:126: the output path, relative to the output root
OutputPath(p) == [dir |-> TrimExt(p).dir, slug |-> TrimExt(p).slug, ext |-> ".html"]

\* os.Create on a path of the output tree: the file there, if any, is
\* replaced
PutFile(tree, path, src, state) ==
  {o \in tree : o.path # path} \cup {[path |-> path, src |-> src, state |-> state]}

\* the draft check drops every draft
SkippedAnyDraft(p, kind) == kind = "draft"

\* builder.go:122-124: a draft is skipped unless it is an exception page
Skipped(p, kind) == kind = "draft" /\ ~isExceptionPage(TrimExt(p))

\* the encoding check is left out
AbortsButEncoding(kind) == kind \in {"unreadable", "badfm"}

\* builder.go:104-115: the read, the UTF-8 check and processContent each
\* end the walk with an error
Aborts(kind) == kind \in {"unreadable", "notutf8", "badfm"}

\* the walk callback of builder.go:92-155 on file i of order; acc is the
\* run so far: the output tree, pagesGenerated, the source files handled,
\* and those of them renderPage created an output file for, in that order
RECURSIVE WalkFiles(_, _, _, _)
WalkFiles(tree, order, i, acc) ==
  IF i > Len(order) THEN [acc EXCEPT !.staticCopied = TRUE]
  ELSE LET p == order[i]
           kind == tree[p]
           seen == [acc EXCEPT !.handled = Append(@, p)]
           failed == [seen EXCEPT !.pages = 0, !.err = [kind |-> kind, path |-> p]]
       IN IF ~Recognized(p) THEN WalkFiles(tree, order, i + 1, acc)
          ELSE IF Aborts(kind) THEN failed
          ELSE IF Skipped(p, kind)
            THEN WalkFiles(tree, order, i + 1, seen)
          ELSE IF kind = "renderfail"
            THEN [failed EXCEPT !.out = PutFile(@, OutputPath(p), p, "partial"),
                                !.written = Append(@, p)]
          ELSE WalkFiles(tree, order, i + 1,
                 [seen EXCEPT !.out = PutFile(@, OutputPath(p), p, "page"),
                              !.written = Append(@, p),
                              !.pages = @ + 1])

\* a different BuildSite: the destination is emptied whatever the options say
BuildSiteTreeAlwaysClean(job) ==
  WalkFiles(job.tree, WalkOrder(DOMAIN job.tree), 1,
            [out |-> {},
             pages |-> 0, err |-> NoErr, handled |-> <<>>, written |-> <<>>,
             staticCopied |-> FALSE])

\* BuildSite, builder.go:73-164, on the content tree of the job: the clean
\* step, the walk, the static pass
BuildSiteTree(job) ==
  WalkFiles(job.tree, WalkOrder(DOMAIN job.tree), 1,
            [out |-> IF job.clean THEN {} ELSE job.prior,
             pages |-> 0, err |-> NoErr, handled |-> <<>>, written |-> <<>>,
             staticCopied |-> FALSE])

\* an output file left by an earlier run
StalePage ==
  [path |-> [dir |-> <<>>, slug |-> "post", ext |-> ".html"],
   src |-> [dir |-> <<>>, slug |-> "post", ext |-> ".md"],
   state |-> "page"]

BuildJobs == [tree : ContentTrees, prior : {{}, {StalePage}}, clean : BOOLEAN]
NoJob == [tree |-> <<>>, prior |-> {}, clean |-> FALSE]
NoBuild ==
  [out |-> {}, pages |-> 0, err |-> NoErr, handled |-> <<>>, written |-> <<>>,
   staticCopied |-> FALSE, done |-> FALSE]

\* one run of BuildSite
RunBuildSite ==
  /\ buildJob # NoJob /\ ~buildResult.done
  /\ LET r == BuildSiteTree(buildJob) IN
       buildResult' = [out |-> r.out, pages |-> r.pages, err |-> r.err,
                       handled |-> r.handled, written |-> r.written,
                       staticCopied |-> r.staticCopied, done |-> TRUE]
  /\ UNCHANGED <<procVars, schedVars, queue, buildVars, histVars, hubVars, httpVars,
                 buildJob, rawContent, processed, funcVars, chanVars, treeVars>>

-----------------------------------------------------------------------------
(* processContent, render.go:36-66 *)

\* The bytes of a content file, in pieces: "D" is three dashes, "n" a line
\* break, "d" the YAML text draft: true, "x" text that is not a YAML mapping.
Dashes == "D"
ContentTokens == {Dashes, "n", "d", "x"}
Contents == UNION {[1..n -> ContentTokens] : n \in 0..MaxContent}

\* PageMeta{}, models.go
DefaultMeta == [draft |-> FALSE]

\* the place of the first three dashes in s, 0 when there are none
FirstDashes(s) ==
  IF \E i \in 1..Len(s) : s[i] = Dashes
  THEN CHOOSE i \in 1..Len(s) : s[i] = Dashes /\ \A j \in 1..(i - 1) : s[j] # Dashes
  ELSE 0

\* bytes.SplitN(s, []byte("---"), n), render.go:40: at most n pieces, the
\* last one the unsplit rest
RECURSIVE SplitN(_, _)
SplitN(s, n) ==
  LET i == FirstDashes(s)
  IN IF n <= 1 \/ i = 0 THEN <<s>>
     ELSE <<SubSeq(s, 1, i - 1)>> \o SplitN(SubSeq(s, i + 1, Len(s)), n - 1)

\* yaml.Unmarshal(part, &meta), render.go:44: text that is no mapping cannot
\* be decoded into PageMeta; a draft: true line sets Draft; blank text
\* leaves meta as it is
YamlFails(part) == \E i \in 1..Len(part) : part[i] = "x"
YamlUnmarshal(part, meta) ==
  IF \E i \in 1..Len(part) : part[i] = "d" THEN [meta EXCEPT !.draft = TRUE] ELSE meta

\* markdownRenderer.Convert and htmlSanitizer.SanitizeBytes, render.go:54-62:
\* the HTML is a function of the body handed over and of whether it was
\* sanitized
Convert(body) == [markdown |-> body, sanitized |-> FALSE]
Sanitize(html) == [html EXCEPT !.sanitized = TRUE]
NoHtml == Convert(<<>>)

\* processContent, render.go:36-66; body records what was handed to Convert
processContent(raw, unsafe) ==
  LET parts == SplitN(raw, 3)
      meta == IF Len(parts) >= 3 THEN YamlUnmarshal(parts[2], DefaultMeta) ELSE DefaultMeta
      body == IF Len(parts) >= 3 THEN parts[3] ELSE raw
  IN IF Len(parts) >= 3 /\ YamlFails(parts[2])
     THEN [meta |-> DefaultMeta, body |-> <<>>, html |-> NoHtml, err |-> TRUE]
     ELSE [meta |-> meta, body |-> body,
           html |-> IF unsafe THEN Convert(body) ELSE Sanitize(Convert(body)),
           err |-> FALSE]

NotProcessed ==
  [meta |-> DefaultMeta, body |-> <<>>, html |-> NoHtml, err |-> FALSE, done |-> FALSE]

\* one call of processContent, with either setting of opts.Unsafe
ProcessContent ==
  /\ ~processed.done
  /\ \E unsafe \in BOOLEAN :
       LET r == processContent(rawContent, unsafe) IN
         processed' = [meta |-> r.meta, body |-> r.body, html |-> r.html,
                       err |-> r.err, done |-> TRUE]
  /\ UNCHANGED <<procVars, schedVars, queue, buildVars, histVars, hubVars, httpVars,
                 buildJob, buildResult, rawContent, funcVars, chanVars, treeVars>>

-----------------------------------------------------------------------------
(* util.ComputeBaseHref, util.go:21-31 *)

\* A relative path is the names of the directories on the way to the file,
\* and the file's name. As a string it is these joined by the separator.
PathSeparator == "/"
DirNames == {"posts", "a", "b"}
FileNames == {"index.md", "b.html"}
RelPaths == [dirs : SeqsUpTo(DirNames, MaxDepth), file : FileNames]
NoRelPath == [dirs |-> <<>>, file |-> ""]

\* filepath.Join of the names: the string filepath.Rel returns, builder.go:117
RECURSIVE JoinPath(_)
JoinPath(names) ==
  IF Len(names) <= 1 THEN names
  ELSE <<Head(names), PathSeparator>> \o JoinPath(Tail(names))
PathString(p) == JoinPath(Append(p.dirs, p.file))

\* the place of the last separator in str, 0 when there is none
LastSeparator(str) ==
  IF \E i \in 1..Len(str) : str[i] = PathSeparator
  THEN CHOOSE i \in 1..Len(str) :
         str[i] = PathSeparator /\ \A j \in (i + 1)..Len(str) : str[j] # PathSeparator
  ELSE 0

\* filepath.Dir of a clean relative path: all but the last element, "." when
\* the path has one element only
Dir(str) ==
  IF LastSeparator(str) = 0 THEN <<".">> ELSE SubSeq(str, 1, LastSeparator(str) - 1)

\* strings.Count(str, sep)
CountOf(str, sep) == Cardinality({i \in 1..Len(str) : str[i] = sep})

\* strings.Repeat(piece, n)
Repeat(piece, n) == [i \in 1..n |-> piece]

\* the levels are counted without the + 1
ComputeBaseHrefSeparators(str) ==
  IF Dir(str) = <<".">> THEN <<>>
  ELSE Repeat("../", CountOf(Dir(str), PathSeparator))

\* ComputeBaseHref, util.go:24-31
ComputeBaseHref(str) ==
  IF Dir(str) = <<".">> THEN <<>>
  ELSE Repeat("../", CountOf(Dir(str), PathSeparator) + 1)

NoBaseHref == [value |-> <<>>, done |-> FALSE]

\* builder.go:134: the base-href of a page is computed from its relPath
PageBaseHref ==
  /\ relPath # NoRelPath /\ ~baseHref.done
  /\ baseHref' = [value |-> ComputeBaseHref(PathString(relPath)), done |-> TRUE]
  /\ UNCHANGED <<procVars, schedVars, queue, buildVars, histVars, hubVars, httpVars,
                 pipeVars, relPath, watchJob, watchResult, staticJob, staticResult, chanVars, treeVars>>

-----------------------------------------------------------------------------
(* The watch registration of Run, server.go:32-76 *)

\* server.go:49
pathsToWatch == <<"content", "templates", "static", "site.yaml", "site.biff">>
TreeRoots == {"content", "templates", "static"}
FileRoots == {"site.yaml", "site.biff"}
WatchRoots == TreeRoots \cup FileRoots

\* what os.Stat finds at a root: nothing, a directory, a file, or an error
\* other than "does not exist"
StatKinds == {"absent", "dir", "file", "denied"}

\* the directories below a root that is a directory, as the names on the
\* way down from it; a directory is there with its parent
SubTrees == {{}, {<<"blog">>}, {<<"blog">>, <<"blog", "old">>}}

\* the directories of the source tree: a directory is the names from the
\* working directory down to it, and the working directory is <<>>
DirsIn(kind, subs) ==
  {<<r>> \o sub : r \in {q \in WatchRoots : kind[q] = "dir"}, sub \in {<<>>} \cup subs}
DirsOf(fs) == DirsIn(fs.kind, fs.subs)

\* a path as the string the program holds
DirString(d) == IF d = <<>> THEN <<".">> ELSE JoinPath(d)

\* the directories for which watcher.Add returns an error: none, or one of
\* those there are
AddFailures(kind, subs) ==
  {{}} \cup {{DirString(d)} : d \in {<<>>} \cup DirsIn(kind, subs)}

NoWatchJob ==
  [kind |-> [r \in WatchRoots |-> "absent"], subs |-> {}, addFails |-> {"-"}]
NoWatches == [watched |-> {}, adds |-> <<>>, err |-> FALSE, done |-> FALSE]

\* filepath.Clean, server.go:38, on a string that has no "." or ".." element,
\* no doubled and no trailing separator: the string itself. Such are all the
\* strings addWatch is given: the names filepath.Walk builds from the root,
\* and filepath.Dir of a root.
Clean(str) == str

\* addWatch, server.go:36-47; adds is the calls of watcher.Add that succeeded
addWatch(job, st, dir) ==
  IF Clean(dir) \in st.watched THEN st
  ELSE IF Clean(dir) \in job.addFails THEN st
  ELSE [st EXCEPT !.watched = @ \cup {Clean(dir)}, !.adds = Append(@, Clean(dir))]

\* the directories below and including root r, in the order of filepath.Walk
WalkDirs(job, r) ==
  <<<<r>>>> \o
  (IF <<"blog">> \in job.subs THEN <<<<r, "blog">>>> ELSE <<>>) \o
  (IF <<"blog", "old">> \in job.subs THEN <<<<r, "blog", "old">>>> ELSE <<>>)

\* server.go:61-71: addWatch on every directory of the walk
RECURSIVE AddWatches(_, _, _, _)
AddWatches(job, st, dirs, i) ==
  IF i > Len(dirs) THEN st
  ELSE AddWatches(job, addWatch(job, st, JoinPath(dirs[i])), dirs, i + 1)

\* the loop of server.go:50-76 from path i on
RECURSIVE WatchPaths(_, _, _)
WatchPaths(job, st, i) ==
  IF i > Len(pathsToWatch) THEN st
  ELSE LET path == pathsToWatch[i]
           kind == job.kind[path]
       IN IF kind = "absent" THEN WatchPaths(job, st, i + 1)
          ELSE IF kind = "denied" THEN [st EXCEPT !.err = TRUE]
          ELSE IF kind = "dir"
            THEN WatchPaths(job, AddWatches(job, st, WalkDirs(job, path), 1), i + 1)
          ELSE WatchPaths(job, addWatch(job, st, Dir(<<path>>)), i + 1)

\* server.go:32-76 as one step
RunRegisterWatches ==
  /\ watchJob # NoWatchJob /\ ~watchResult.done
  /\ watchResult' = [WatchPaths(watchJob, NoWatches, 1) EXCEPT !.done = TRUE]
  /\ UNCHANGED <<procVars, schedVars, queue, buildVars, histVars, hubVars, httpVars,
                 pipeVars, relPath, baseHref, watchJob, staticJob, staticResult, chanVars, treeVars>>

-----------------------------------------------------------------------------
(* The static-asset pass of BuildSite, builder.go:166-207 *)

\* main.go:27-28
staticDir == "static"
outputDir == "public"

\* builder.go:170-173
allowedExts == {".css", ".js", ".txt", ".svg", ".png", ".jpg", ".jpeg", ".gif"}

\* file names, each a stem followed by its dot-suffixes, in the lexical
\* order in which filepath.Walk visits the entries of a directory
AssetNames ==
  << <<"a">>, <<"a", ".PNG">>, <<"a", ".bak">>, <<"a", ".bak", ".css">>,
     <<"a", ".css">>, <<"a", ".css", ".bak">>, <<"a", ".gif">>, <<"a", ".html">>,
     <<"a", ".jpeg">>, <<"a", ".jpg">>, <<"a", ".js">>, <<"a", ".png">>,
     <<"a", ".svg">>, <<"a", ".txt">> >>

\* the directories of the static tree below its root, in the order of the
\* walk: the files of the root come before the entries of img
AssetDirs == << <<>>, <<"img">> >>

\* the places of the walk, and the path of the file at a place
AssetSlots == 1..(Len(AssetDirs) * Len(AssetNames))
AssetAt(k) ==
  [dirs |-> <<staticDir>> \o AssetDirs[((k - 1) \div Len(AssetNames)) + 1],
   name |-> AssetNames[((k - 1) % Len(AssetNames)) + 1]]

\* a file of the tree can be opened, or os.Open fails on it
AssetKinds == {"file", "unreadable"}

NoAsset == [dirs |-> <<>>, name |-> <<>>]
NoStaticJob == [root |-> "none", files |-> <<>>]
\* err: the path whose handling failed, NoAsset for a nil error
NoStatic == [done |-> FALSE, err |-> NoAsset, copied |-> {}]

\* filepath.Ext: the suffix from the final dot, empty without a dot
Ext(name) == IF Len(name) > 1 THEN name[Len(name)] ELSE ""

\* a different test: every extension passes
AllowedAny(ext) == TRUE

\* builder.go:182
Allowed(ext) == ext \in allowedExts

\* filepath.Rel(base, path) for a path under base, builder.go:186
Rel(base, path) == [dirs |-> Tail(path.dirs), name |-> path.name]

\* filepath.Join(dir, rel), builder.go:190
JoinDir(dir, rel) == [dirs |-> <<dir>> \o rel.dirs, name |-> rel.name]

\* the callback of filepath.Walk on the files from place i on,
\* builder.go:174-206: an error ends the walk
RECURSIVE CopyWalk(_, _, _)
CopyWalk(files, i, acc) ==
  IF i > Len(files) THEN acc
  ELSE LET f == files[i] IN
    IF ~Allowed(Ext(f.path.name)) THEN CopyWalk(files, i + 1, acc)
    ELSE IF f.kind = "unreadable" THEN [acc EXCEPT !.err = f.path]
    ELSE CopyWalk(files, i + 1,
           [acc EXCEPT !.copied = @ \cup {JoinDir(outputDir, Rel(staticDir, f.path))}])

\* builder.go:167-207; without the static root the walk calls back with the
\* error of Lstat, and the callback returns it
copyStaticAssets(job) ==
  IF job.root = "absent"
    THEN [NoStatic EXCEPT !.err = [dirs |-> <<staticDir>>, name |-> <<>>]]
    ELSE CopyWalk(job.files, 1, NoStatic)

\* one run of the static pass
RunCopyStatic ==
  /\ staticJob # NoStaticJob /\ ~staticResult.done
  /\ staticResult' = [copyStaticAssets(staticJob) EXCEPT !.done = TRUE]
  /\ UNCHANGED <<procVars, schedVars, queue, buildVars, histVars, hubVars, httpVars,
                 pipeVars, relPath, baseHref, watchJob, watchResult, staticJob, chanVars, treeVars>>

-----------------------------------------------------------------------------
(* The source tree after startup *)

\* a different watcher: a watch on a directory covers the tree below it
WatchedUnder(d) ==
  \E n \in 1..Len(d) : DirString(SubSeq(d, 1, n)) \in watchResult.watched

\* the watcher reports what happens to the entries of a directory it was
\* given by watcher.Add (server.go:40), and to no others
Watched(d) == DirString(d) \in watchResult.watched

\* a name no directory has at startup
LateName == "new"

\* a directory is made in a directory of the source tree; the watcher of
\* the parent, if there is one, reports the new entry
Mkdir ==
  /\ alive /\ schedPc # "none" /\ Cardinality(lateDirs) < MaxLate
  /\ \E p \in DirsOf(watchJob) :
       LET d == Append(p, LateName) IN
         /\ d \notin lateDirs
         /\ lateDirs' = lateDirs \cup {d}
         /\ IF Watched(p) /\ watcherOpen
              THEN /\ Len(queue) < MaxQueue
                   /\ queue' = Append(queue, [op |-> {"Create"}, burst |-> 0, self |-> FALSE])
              ELSE UNCHANGED queue
  /\ UNCHANGED <<procVars, schedVars, buildVars, histVars, hubVars, httpVars, pipeVars,
                 funcVars, chanVars, unbuilt>>

\* a file in a directory of the source tree is written
WriteIn ==
  /\ alive /\ schedPc # "none"
  /\ \E d \in DirsOf(watchJob) \cup lateDirs :
       /\ unbuilt' = IF d \in lateDirs THEN unbuilt \cup {d} ELSE unbuilt
       /\ IF Watched(d) /\ watcherOpen
            THEN /\ Len(queue) < MaxQueue
                 /\ queue' = Append(queue, [op |-> {"Write"}, burst |-> 0, self |-> FALSE])
            ELSE /\ d \in lateDirs /\ d \notin unbuilt
                 /\ UNCHANGED queue
  /\ UNCHANGED <<procVars, schedVars, buildVars, histVars, hubVars, httpVars, pipeVars,
                 funcVars, chanVars, lateDirs>>

-----------------------------------------------------------------------------
(* Specifications *)

InitCommon ==
  /\ alive = TRUE
  /\ schedOpts = FALSE
  /\ sinceLastBuild = LongAgo
  /\ slept = 0
  /\ cur = NoEvent
  /\ queue = <<>>
  /\ activeBuilds = 0
  /\ rebuilds = NoRebuild
  /\ bursts = <<>>
  /\ sinceDone = Never
  /\ ignored = {}
  /\ clients = {}
  /\ mu = MuFree
  /\ visited = {}
  /\ connPc = [c \in Conns |-> "idle"]
  /\ conn = [c \in Conns |-> "none"]
  /\ closes = [c \in Conns |-> 0]
  /\ pass = NoPass
  /\ httpResp = NoResponse
  /\ buildResult = NoBuild
  /\ processed = NotProcessed
  /\ baseHref = NoBaseHref
  /\ watchResult = NoWatches
  /\ staticResult = NoStatic
  /\ lateDirs = {}
  /\ unbuilt = {}
  /\ errQueue = 0
  /\ logged = FALSE

\* nothing is being built or processed outside the server
NoPipe ==
  /\ buildJob = NoJob /\ rawContent = <<>> /\ relPath = NoRelPath
  /\ watchJob = NoWatchJob /\ staticJob = NoStaticJob

\* nibl serve is started, with any caller's options and any output tree
\* left by an earlier run
InitRun ==
  /\ InitCommon
  /\ runOpts \in BOOLEAN
  /\ out \in [Docs -> {"none", "page"}]
  /\ mainPc = "start"
  /\ schedPc = "none"
  /\ watcherOpen = FALSE
  /\ errorsOpen = FALSE

\* the server is serving a site without content and the scheduler waits
\* for an event
InitServing ==
  /\ InitCommon
  /\ runOpts = FALSE
  /\ out = [d \in Docs |-> "none"]
  /\ mainPc = "serving"
  /\ schedPc = "select"
  /\ watcherOpen = TRUE
  /\ errorsOpen = TRUE

RunNext ==
  \/ RunInitialBuild
  \/ RunInitialBuildDone
  \/ RunWatch
  \/ RunStartScheduler
  \/ RunListen
  \/ WatcherCloseEvents
  \/ WatcherCloseErrors
  \/ MainExit

SchedNext ==
  \/ SchedTake
  \/ SchedClosed
  \/ SchedErrorsClosed
  \/ SchedBuild
  \/ SchedBuildDone
  \/ SchedBroadcastLock
  \/ SchedBroadcastDone

ServeWsNext ==
  \E c \in Conns :
    \/ ServeWsUpgrade(c)
    \/ ServeWsRegisterLock(c)
    \/ ServeWsRegister(c)
    \/ PeerGone(c)
    \/ ServeWsReadError(c)
    \/ ServeWsUnregisterLock(c)
    \/ ServeWsUnregister(c)

\* the rebuild loop on a site with content, no browser connected
Init == InitRun /\ site = Docs /\ httpReq = NoRequest /\ NoPipe
Next == RunNext \/ SchedNext \/ FsEvent \/ Tick
Spec == Init /\ [][Next]_vars

\* the same with the history of bursts, on a site without content
InitDebounce == InitRun /\ site = {} /\ httpReq = NoRequest /\ NoPipe
NextDebounce == RunNext \/ SchedNext \/ FsEventInBurst \/ Tick
SpecDebounce == InitDebounce /\ [][NextDebounce]_vars

\* the rebuild loop with a watcher that reports errors, on a site without
\* content
InitErrors == InitRun /\ site = {} /\ httpReq = NoRequest /\ NoPipe
NextErrors == RunNext \/ SchedNext \/ SchedError \/ FsEvent \/ WatcherError \/ Tick
SpecErrors == InitErrors /\ [][NextErrors]_vars

\* the rebuild loop with a story file: every rebuild writes into the content
\* tree
InitStory == InitRun /\ site = {} /\ httpReq = NoRequest /\ NoPipe
NextStory == RunNext \/ SchedNext \/ FsEvent \/ CompileWrite \/ Tick
SpecStory == InitStory /\ [][NextStory]_vars

\* the rebuild loop with browsers connected, on a site without content;
\* the notifications are those of changes
InitReload == InitRun /\ site = {} /\ httpReq = NoRequest /\ NoPipe
NextReload ==
  RunNext \/ SchedNext \/ SchedBroadcastSend \/ ServeWsNext \/ FsChange \/ Tick
SpecReload == InitReload /\ [][NextReload]_vars

\* every send attempt returns: client.WriteMessage (hub.go:65) comes back
\* with nil or an error, and the scheduler then goes on
FairPass ==
  /\ WF_vars(SchedBroadcastSend)
  /\ WF_vars(SchedBroadcastDone)

\* the server once Run serves: the scheduler loop, the browsers, and files
\* being written
InitPass == InitServing /\ site = {} /\ httpReq = NoRequest /\ NoPipe
NextPass ==
  \/ SchedTake
  \/ SchedBuild
  \/ SchedBuildDone
  \/ SchedBroadcastLock
  \/ SchedBroadcastSend
  \/ SchedBroadcastDone
  \/ ServeWsNext
  \/ FsWrite
  \/ Tick
SpecPass == InitPass /\ [][NextPass]_vars
SpecPassFair == SpecPass /\ FairPass

\* the Hub alone: clients come and go, broadcasts follow one another
InitHub == InitServing /\ site = {} /\ httpReq = NoRequest /\ NoPipe
NextHub ==
  \/ RebuildSucceeded
  \/ SchedBroadcastLock
  \/ SchedBroadcastSend
  \/ SchedBroadcastDone
  \/ ServeWsNext
  \/ \E c \in Conns : UnregisterAgain(c)
SpecHub == InitHub /\ [][NextHub]_vars

\* the Hub with its goroutines scheduled: a goroutine that can take a step
\* takes it, and one that waits for the lock gets it when the lock is free
\* again and again (sync.Mutex hands the lock to a waiter that has waited)
FairHub ==
  /\ WF_vars(SchedBroadcastSend)
  /\ WF_vars(SchedBroadcastDone)
  /\ \A c \in Conns :
       /\ WF_vars(ServeWsRegister(c))
       /\ SF_vars(ServeWsUnregisterLock(c))
       /\ WF_vars(ServeWsUnregister(c))
SpecHubFair == SpecHub /\ FairHub

\* the interceptor: one request, over every path, inner status and body
InitHttp == InitServing /\ site = {} /\ httpReq \in Requests /\ NoPipe
NextHttp == ServeHTTP
SpecHttp == InitHttp /\ [][NextHttp]_vars

\* BuildSite alone: one run, over every content tree of the bounded size
InitBuild ==
  /\ InitServing /\ site = {} /\ httpReq = NoRequest
  /\ buildJob \in BuildJobs \ {NoJob} /\ rawContent = <<>> /\ relPath = NoRelPath
  /\ watchJob = NoWatchJob /\ staticJob = NoStaticJob
NextBuild == RunBuildSite
SpecBuild == InitBuild /\ [][NextBuild]_vars

\* processContent alone: one call, on every content of the bounded length
InitContent ==
  /\ InitServing /\ site = {} /\ httpReq = NoRequest
  /\ buildJob = NoJob /\ rawContent \in Contents /\ relPath = NoRelPath
  /\ watchJob = NoWatchJob /\ staticJob = NoStaticJob
NextContent == ProcessContent
SpecContent == InitContent /\ [][NextContent]_vars

\* ComputeBaseHref alone: one call, on every path of the bounded depth
InitHref ==
  /\ InitServing /\ site = {} /\ httpReq = NoRequest
  /\ buildJob = NoJob /\ rawContent = <<>> /\ relPath \in RelPaths
  /\ watchJob = NoWatchJob /\ staticJob = NoStaticJob
NextHref == PageBaseHref
SpecHref == InitHref /\ [][NextHref]_vars

\* the watch registration alone, over the states of the source roots
InitWatch ==
  /\ InitServing /\ site = {} /\ httpReq = NoRequest
  /\ buildJob = NoJob /\ rawContent = <<>> /\ relPath = NoRelPath
  /\ \E k \in [WatchRoots -> StatKinds], sb \in SubTrees :
       \E f \in AddFailures(k, sb) :
         watchJob = [kind |-> k, subs |-> sb, addFails |-> f]
  /\ staticJob = NoStaticJob
NextWatch == RunRegisterWatches
SpecWatch == InitWatch /\ [][NextWatch]_vars

\* the server from the watch registration on, in a source tree with a
\* content directory, in which directories are made and files written
InitTree ==
  /\ InitRun /\ site = {} /\ httpReq = NoRequest
  /\ buildJob = NoJob /\ rawContent = <<>> /\ relPath = NoRelPath
  /\ staticJob = NoStaticJob
  /\ \E sb \in SubTrees, y \in {"absent", "file"} :
       watchJob = [kind |-> [r \in WatchRoots |->
                              IF r = "content" THEN "dir"
                              ELSE IF r = "site.yaml" THEN y ELSE "absent"],
                   subs |-> sb, addFails |-> {}]
\* server.go:28-79: the watches are registered between the creation of the
\* watcher and the start of the scheduler
NextTree ==
  \/ RunNext /\ (mainPc = "spawn" => watchResult.done)
  \/ RunRegisterWatches /\ mainPc = "spawn"
  \/ SchedNext
  \/ Mkdir
  \/ WriteIn
  \/ Tick
SpecTree == InitTree /\ [][NextTree]_vars

\* the static pass alone, over the static trees of the bounded size
InitStatic ==
  /\ InitServing /\ site = {} /\ httpReq = NoRequest
  /\ buildJob = NoJob /\ rawContent = <<>> /\ relPath = NoRelPath
  /\ watchJob = NoWatchJob
  /\ \/ staticJob = [root |-> "absent", files |-> <<>>]
     \/ \E n \in 0..MaxAssets :
          \E at \in [1..n -> AssetSlots], kd \in [1..n -> AssetKinds] :
            /\ \A i \in 1..(n - 1) : at[i] < at[i + 1]
            /\ staticJob = [root |-> "dir",
                            files |-> [i \in 1..n |->
                                         [path |-> AssetAt(at[i]), kind |-> kd[i]]]]
NextStatic == RunCopyStatic
SpecStatic == InitStatic /\ [][NextStatic]_vars
-----------------------------------------------------------------------------
(* Properties *)

\* the scheduler goroutine is in its loop
SchedRunning == alive /\ watcherOpen /\ schedPc \notin {"none", "returned"}

\* burst i is over: no further event can join it, and the scheduler has
\* dropped or answered every event of it
Complete(i) ==
  /\ SchedRunning
  /\ ~Pending(i)
  /\ i > 1 \/ bursts[i].age > DebounceDuration

\* C1, as stated: every burst of one or more qualifying events that all
\* arrive within the debounce interval gets exactly one call of the build
\* function.
C1_OneBuildPerBurst ==
  \A i \in 1..Len(bursts) : Complete(i) => bursts[i].builds = 1

\* C1, amended: a burst gets at most one call of the build function, and
\* exactly one when more than the debounce duration had elapsed since the
\* last completed rebuild at the moment the scheduler received the first
\* event of the burst. (A burst received entirely within 500 ms of the last
\* completed rebuild gets none.)
C1_AtMostOneBuildPerBurst ==
  \A i \in 1..Len(bursts) :
    /\ bursts[i].builds <= 1
    /\ Complete(i) /\ bursts[i].firstOpen => bursts[i].builds = 1

\* a burst of several events is over and was answered by one build
C1_Witness ==
  \E i \in 1..Len(bursts) :
    /\ Complete(i)
    /\ bursts[i].many
    /\ bursts[i].firstOpen
    /\ bursts[i].builds = 1

\* the latest watcher-triggered rebuild failed
FailedRebuild == rebuilds.result \in {"err", "exit"}

\* the broadcast pass is over
PassOver == schedPc # "sending"

\* C2: a watcher-triggered rebuild that succeeded is followed, before the
\* scheduler is back at the select that takes the next event, by exactly one
\* call of broadcastMessage, with the message "reload"; every client
\* registered when the pass began has received exactly that token once the
\* pass is over, unless its write failed and the hub closed it.
C2_SuccessBroadcastsReload ==
  rebuilds.result = "ok" =>
    /\ schedPc \in {"broadcast", "sending", "select", "sleep", "returned"}
    /\ schedPc = "broadcast" => rebuilds.broadcasts = 0
    /\ schedPc # "broadcast" =>
         /\ rebuilds.broadcasts = 1
         /\ pass.msg = "reload"
    /\ schedPc \notin {"broadcast", "sending"} =>
         \A c \in pass.snap :
           \/ pass.got[c] = <<"reload">>
           \/ pass.got[c] = <<>> /\ conn[c] = "closed"

\* a rebuild succeeded, the scheduler is back at the select, and a client
\* has received the token
C2_Witness ==
  /\ rebuilds.result = "ok"
  /\ schedPc = "select"
  /\ \E c \in clients : pass.got[c] = <<"reload">> /\ conn[c] = "open"

\* C3: after a watcher-triggered rebuild that failed, and until the next
\* rebuild begins, broadcastMessage has not been called and no client has
\* been sent anything.
C3_FailureDoesNotBroadcast ==
  FailedRebuild =>
    /\ rebuilds.broadcasts = 0
    /\ rebuilds.reloaded = {}
    /\ schedPc \notin {"broadcast", "sending"}

\* a rebuild failed while a client with a working connection was registered
C3_Witness ==
  /\ rebuilds.result = "err"
  /\ schedPc = "select"
  /\ \E c \in clients : conn[c] = "open"

\* C4, as stated: a watcher-triggered rebuild that fails is never fatal: it
\* ends with an error the loop logs, never with the end of the process, and
\* the scheduler goes on.
C4_FailedRebuildNotFatal ==
  FailedRebuild => rebuilds.result = "err" /\ schedPc # "build"

\* C5, as stated: a watcher-triggered rebuild that fails has created or
\* overwritten no file of the output tree.
C5_FailedRebuildKeepsTree ==
  FailedRebuild => rebuilds.written = {}

\* C6: at most one call of the build function is in progress; while the
\* initial build runs the scheduler goroutine does not exist; a rebuild in
\* progress is the scheduler's; and the scheduler takes an event off the
\* channel only at its select, with no build in progress.
C6_BuildsDoNotOverlap ==
  /\ [](/\ activeBuilds <= 1
        /\ mainPc \in {"start", "initbuild"} => schedPc = "none"
        /\ activeBuilds = 1 => mainPc = "initbuild" \/ schedPc = "build"
        /\ schedPc = "build" => activeBuilds = 1)
  /\ [][Len(queue') < Len(queue) /\ watcherOpen' =>
          schedPc = "select" /\ activeBuilds = 0]_vars

\* a rebuild is in progress while a further event waits in the channel
C6_Witness ==
  /\ schedPc = "build"
  /\ activeBuilds = 1
  /\ rebuilds.result = "running"
  /\ queue # <<>>

\* C7: in one broadcast pass every client registered when the lock was
\* taken is written to exactly once, no client is written to twice, a
\* client not registered then is written nothing, and no client becomes
\* registered while the pass lasts.
C7_EveryMemberSentOnce ==
  /\ \A c \in Conns :
       /\ pass.sent[c] <= 1
       /\ Len(pass.got[c]) <= pass.sent[c]
       /\ c \notin pass.snap => pass.sent[c] = 0
       /\ c \in pass.snap /\ (PassOver \/ c \in visited) => pass.sent[c] = 1
  /\ ~PassOver => clients \subseteq pass.snap

\* a pass is over in which one client was sent the message, and another
\* client, whose register call waited for the pass, is registered now and was
\* sent nothing
C7_Witness ==
  /\ PassOver
  /\ \E c \in pass.snap : pass.got[c] = <<"reload">>
  /\ \E c \in clients \ pass.snap : pass.got[c] = <<>>

\* the clients whose write failed in the latest pass
SendFailed == {c \in Conns : pass.sent[c] >= 1 /\ pass.got[c] = <<>>}

\* C8: a client whose write fails in a pass is closed by the hub, once, and
\* removed from the membership at that step, and has received nothing; when
\* the pass is over every other client registered at its start has received
\* the message.
C8_FailedSendRemovesClient ==
  /\ \A c \in SendFailed :
       /\ c \notin clients
       /\ conn[c] = "closed"
       /\ closes[c] = 1
  /\ PassOver => \A c \in pass.snap \ SendFailed : pass.got[c] = <<pass.msg>>

\* a pass is over in which the write to one client failed and another
\* client received the message
C8_Witness ==
  /\ PassOver
  /\ SendFailed # {}
  /\ \E c \in pass.snap \ SendFailed : pass.got[c] = <<"reload">>

\* C9: in every state, unregister of a registered client deletes it and
\* closes its connection, unregister of a client that is not registered
\* changes nothing; the hub closes no connection twice, and a registered
\* client has not been closed by it.
C9_UnregisterIdempotent ==
  \A c \in Conns :
    /\ closes[c] <= 1
    /\ c \in clients => closes[c] = 0 /\ conn[c] \in {"open", "broken"}
    /\ closes[c] = 1 => conn[c] = "closed"
    /\ c \in clients =>
         /\ unregister(c).clients = clients \ {c}
         /\ unregister(c).conn[c] = "closed"
         /\ unregister(c).closes[c] = 1
    /\ c \notin clients =>
         unregister(c) = [clients |-> clients, conn |-> conn, closes |-> closes]

\* a client was removed and closed by a failed write, and the unregister
\* its serveWs had deferred has run after that
C9_Witness ==
  \E c \in Conns :
    /\ c \in SendFailed
    /\ connPc[c] = "done"
    /\ closes[c] = 1

\* a page-like request was answered and the inner handler's status was 200
PageServed ==
  /\ httpResp # NoResponse
  /\ IsHTML(httpReq.path)
  /\ httpReq.status = StatusOK

\* the number of places at which sep occurs in str
Count(str, sep) == Cardinality({i \in 1..Len(str) : OccursAt(str, sep, i)})

\* body has the script right before its first closing body tag
ScriptBeforeFirstTag(body) ==
  \E i \in 1..Len(body) :
    /\ OccursAt(body, CloseTag, i)
    /\ \A j \in 1..(i - 1) : ~OccursAt(body, CloseTag, j)
    /\ OccursAt(body, liveReloadScript, i - Len(liveReloadScript))

\* C10, as stated: the body sent for a page-like request answered with
\* status 200 contains the script exactly once, right before the first
\* closing body tag, and Content-Length is the length of the body sent.
C10_ScriptExactlyOnce ==
  PageServed =>
    /\ Count(httpResp.body, liveReloadScript) = 1
    /\ ScriptBeforeFirstTag(httpResp.body)
    /\ httpResp.header.contentLength = <<Len(httpResp.body)>>

\* C10, amended: when the inner body has a closing body tag, the body sent
\* is the inner body with one copy of the script put in right before the
\* first closing body tag, so that it holds one occurrence of the script more
\* than the inner body and has the script right before its own first closing
\* body tag; when the inner body has no closing body tag, the body sent is
\* the inner body. In both cases Content-Length is the length of the body
\* sent.
C10_ScriptBeforeFirstTagIfAny ==
  PageServed =>
    /\ httpResp.header.contentLength = <<Len(httpResp.body)>>
    /\ Count(httpReq.body, CloseTag) = 0 => httpResp.body = httpReq.body
    /\ Count(httpReq.body, CloseTag) > 0 =>
         /\ \E i \in 1..Len(httpReq.body) :
              /\ OccursAt(httpReq.body, CloseTag, i)
              /\ \A j \in 1..(i - 1) : ~OccursAt(httpReq.body, CloseTag, j)
              /\ httpResp.body =
                   SubSeq(httpReq.body, 1, i - 1) \o liveReloadScript
                     \o SubSeq(httpReq.body, i, Len(httpReq.body))
         /\ Count(httpResp.body, liveReloadScript) =
              Count(httpReq.body, liveReloadScript) + 1
         /\ ScriptBeforeFirstTag(httpResp.body)

\* a page with two closing body tags was served with the script put in
C10_Witness ==
  /\ PageServed
  /\ Count(httpReq.body, CloseTag) = 2
  /\ httpResp.body # httpReq.body

\* a request was answered
Served == httpResp # NoResponse

\* C11: when the inner handler's status is not 200, or the path is not
\* page-like, the body sent is the body the inner handler produced and the
\* status sent is the inner handler's status.
C11_OtherResponsesPassThrough ==
  Served /\ (httpReq.status # StatusOK \/ ~IsHTML(httpReq.path)) =>
    /\ httpResp.body = httpReq.body
    /\ httpResp.status = httpReq.status

\* a page-like request was answered with an inner status other than 200 and
\* an inner body that has a closing body tag
C11_Witness ==
  /\ Served
  /\ IsHTML(httpReq.path)
  /\ httpReq.status = StatusNotFound
  /\ Count(httpReq.body, CloseTag) > 0

\* C12, as stated: for a path that is not page-like the whole response,
\* status, headers and body, is what the inner handler alone produces on a
\* response writer nobody has touched.
C12_NonPageResponseUntouched ==
  Served /\ ~IsHTML(httpReq.path) => httpResp = InnerServe(NoHeader, httpReq)

\* the body with the len symbols from position k on taken out
Without(body, k, len) == SubSeq(body, 1, k - 1) \o SubSeq(body, k + len, Len(body))

\* C13: for a page-like response with inner status 200 and inner body B,
\* when B has a closing body tag the body sent is B with the script put in
\* at one position, so that taking that occurrence out gives B; when B has
\* none the body sent is B and Content-Length is the length of B.
C13_InjectionAltersNoOtherByte ==
  PageServed =>
    /\ Count(httpReq.body, CloseTag) = 0 =>
         /\ httpResp.body = httpReq.body
         /\ httpResp.header.contentLength = <<Len(httpReq.body)>>
    /\ Count(httpReq.body, CloseTag) > 0 =>
         /\ Len(httpResp.body) = Len(httpReq.body) + Len(liveReloadScript)
         /\ \E k \in 1..Len(httpResp.body) :
              /\ OccursAt(httpResp.body, liveReloadScript, k)
              /\ Without(httpResp.body, k, Len(liveReloadScript)) = httpReq.body

\* a page was served whose body has text before and after its one closing
\* body tag, and the body sent is longer by the script
C13_Witness ==
  /\ PageServed
  /\ Count(httpReq.body, CloseTag) = 1
  /\ Len(httpReq.body) = Len(CloseTag) + 2
  /\ Index(httpReq.body, CloseTag) = 2
  /\ Len(httpResp.body) = Len(httpReq.body) + Len(liveReloadScript)

\* C15: the initial build is called with CleanDestination = true, every
\* rebuild the scheduler begins with CleanDestination = false, whatever the
\* caller passed; and once the scheduler exists no step removes a file of
\* the output tree.
C15_OnlyInitialBuildCleans ==
  /\ [](/\ mainPc = "initbuild" => runOpts
        /\ schedPc # "none" => ~schedOpts
        /\ rebuilds.result # "none" => ~rebuilds.clean)
  /\ [][schedPc # "none" =>
          \A d \in Docs : out[d] # "none" => out'[d] # "none"]_vars

\* a rebuild without cleaning has succeeded and the page of a file that
\* the rebuild did not write is in the output tree
C15_Witness ==
  /\ rebuilds.result = "ok"
  /\ ~rebuilds.clean
  /\ \E d \in Docs : out[d] = "page" /\ d \notin rebuilds.written

\* the place of a position of Run in the startup order
StartupRank(pc) ==
  CASE pc = "start" -> 0
    [] pc = "initbuild" -> 1
    [] pc = "newwatcher" -> 2
    [] pc = "spawn" -> 3
    [] pc = "listen" -> 4
    [] pc = "serving" -> 5
    [] OTHER -> 6

C17_DebounceAndSettle ==
  [][schedPc = "sleep" /\ schedPc' = "build" =>
       /\ sinceDone > DebounceDuration
       /\ sinceLastBuild > DebounceDuration
       /\ slept >= SettleDelay]_vars

\* a rebuild is in progress and an earlier rebuild has returned
C17_Witness ==
  /\ schedPc = "build"
  /\ rebuilds.result = "running"
  /\ sinceDone > DebounceDuration
  /\ sinceDone < Never
-----------------------------------------------------------------------------
(* The build pipeline *)

BuildDone == buildResult.done
BuildOk == buildResult.done /\ buildResult.err = NoErr
Tree == buildJob.tree
Written == {buildResult.written[i] : i \in 1..Len(buildResult.written)}
Handled == {buildResult.handled[i] : i \in 1..Len(buildResult.handled)}

\* the documents of the tree: the files with a recognized extension
Documents == {p \in DOMAIN Tree : Recognized(p)}

\* C14: in a run of BuildSite no output file is created for a document whose
\* draft flag is set and whose slug (its path under the content root without
\* the extension) is none of index, about, menu; and when the run succeeds,
\* index and about have an output file whatever their draft flag, and the
\* page count is the number of documents that are not drafts or are on the
\* list, so the drafts are not counted and the listed ones are.
C14_DraftsSkippedExceptAllowList ==
  BuildDone =>
    /\ \A p \in Documents :
         Tree[p] = "draft" /\ ~isExceptionPage(TrimExt(p)) => p \notin Written
    /\ BuildOk =>
         /\ \A p \in Documents :
              isExceptionPage(TrimExt(p)) =>
                /\ p \in Written
                /\ \E o \in buildResult.out : o.path = OutputPath(p) /\ o.state = "page"
         /\ buildResult.pages =
              Cardinality({p \in Documents :
                             Tree[p] # "draft" \/ isExceptionPage(TrimExt(p))})

\* a successful run over a draft post and a draft index: one page, index
C14_Witness ==
  /\ BuildOk
  /\ \E p, q \in Documents :
       /\ p.slug = "post" /\ Tree[p] = "draft" /\ p \notin Written
       /\ q.slug = "index" /\ q.dir = <<>> /\ Tree[q] = "draft" /\ q \in Written
  /\ buildResult.pages = 1

\* the files the walk reaches before p do not end the run
ReachedByWalk(p) ==
  \A q \in Documents : Before(q, p) => Tree[q] \in {"plain", "draft"}

\* C18: a document that is not valid UTF-8 fails the run: BuildSite returns
\* an error and the count 0, no file after that document in walk order is
\* read, and the static assets are not copied; when the walk reaches the
\* document (no earlier file has ended the run), the run stops there with
\* the error that names it.
C18_InvalidEncodingStopsRun ==
  BuildDone =>
    \A p \in Documents :
      Tree[p] = "notutf8" =>
        /\ buildResult.err # NoErr
        /\ buildResult.pages = 0
        /\ ~buildResult.staticCopied
        /\ \A q \in DOMAIN Tree : Before(p, q) => q \notin Handled
        /\ p \in Handled => buildResult.err = [kind |-> "notutf8", path |-> p]
        /\ ReachedByWalk(p) => p \in Handled

\* the walk met a document that is not UTF-8 and stopped there, before a
\* later document
C18_Witness ==
  /\ BuildDone
  /\ \E p, q \in Documents :
       /\ Tree[p] = "notutf8" /\ buildResult.err = [kind |-> "notutf8", path |-> p]
       /\ Before(p, q) /\ q \notin Handled
       /\ buildResult.pages = 0 /\ ~buildResult.staticCopied

\* the file starts with a line of three dashes and has a later such line
HasLeadingFrontMatter(raw) ==
  /\ Len(raw) >= 3
  /\ raw[1] = Dashes /\ raw[2] = "n"
  /\ \E i \in 3..Len(raw) :
       /\ raw[i] = Dashes /\ raw[i - 1] = "n"
       /\ i = Len(raw) \/ raw[i + 1] = "n"

\* C19: for a content file without a leading front-matter block,
\* processContent returns the default metadata and no error, and the body it
\* renders is the whole file.
C19_NoFrontMatterWholeFileIsBody ==
  processed.done /\ ~HasLeadingFrontMatter(rawContent) =>
    /\ ~processed.err
    /\ processed.meta = DefaultMeta
    /\ processed.body = rawContent

\* the documents the run had to write: those it did not skip
Emitted == {p \in Documents : ~(Tree[p] = "draft" /\ ~isExceptionPage(TrimExt(p)))}

\* the HTML files created by the run
FilesFromRun == {OutputPath(p) : p \in Written}

\* C20: in a successful run every document that is not a skipped draft is
\* written to the path that mirrors its own with the extension replaced by
\* .html, two such documents are written to two files, and the page count
\* is the number of HTML files the run created.
C20_OneOutputFilePerDocument ==
  BuildOk =>
    /\ \A p \in Emitted :
         \E o \in buildResult.out : o.path = OutputPath(p) /\ o.state = "page"
    /\ \A p, q \in Emitted : p # q => OutputPath(p) # OutputPath(q)
    /\ buildResult.pages = Cardinality(FilesFromRun)

\* C21: the base-href of a page is "../" once per directory level between
\* the page and the root, and the empty string for a page directly under
\* the root. The page's output file is at the same depth under the output
\* root as its source under the content root (builder.go:126).
C21_BaseHrefClimbsToRoot ==
  baseHref.done =>
    /\ Len(baseHref.value) = Len(relPath.dirs)
    /\ \A i \in 1..Len(baseHref.value) : baseHref.value[i] = "../"

\* a page two levels down has been given "../../"
C21_Witness ==
  /\ baseHref.done
  /\ Len(relPath.dirs) = 2
  /\ baseHref.value = <<"../", "../">>

\* the registration ran to its end and Run goes on to start the scheduler
Registered == watchResult.done /\ ~watchResult.err

\* C22: after the watch registration no directory is registered twice, every
\* directory under each tree root that exists is registered, and each
\* single-file root is represented by its parent directory and not by its
\* own path.
C22_WatchesCoverTheRoots ==
  Registered =>
    /\ \A i, j \in 1..Len(watchResult.adds) :
         i # j => watchResult.adds[i] # watchResult.adds[j]
    /\ \A d \in DirsOf(watchJob) :
         d[1] \in TreeRoots => DirString(d) \in watchResult.watched
    /\ \A f \in FileRoots :
         watchJob.kind[f] = "file" =>
           /\ DirString(<<>>) \in watchResult.watched
           /\ <<f>> \notin watchResult.watched

\* the scheduler takes an error off the error channel
ErrorReceived == errorsOpen /\ errorsOpen' /\ errQueue' < errQueue

\* the scheduler goroutine returns
SchedReturns == schedPc # "returned" /\ schedPc' = "returned"

\* the debounce state of the loop
debounceState == <<sinceLastBuild, slept, cur, schedOpts>>

\* C23 as stated: a watcher error is logged and leaves the loop running with
\* its debounce state as it was, and the scheduler returns only when the
\* event channel is closed.
C23_OnlyEventsClosedEndsLoop ==
  [][/\ ErrorReceived =>
          logged' /\ schedPc' = "select" /\ UNCHANGED debounceState
     /\ SchedReturns => ~watcherOpen]_vars

\* C23, amended: a watcher error is logged and leaves the loop running with
\* its debounce state as it was, and the scheduler returns only when the
\* event channel or the error channel is closed.
C23_OnlyClosedChannelEndsLoop ==
  [][/\ ErrorReceived =>
          logged' /\ schedPc' = "select" /\ UNCHANGED debounceState
     /\ SchedReturns => ~watcherOpen \/ ~errorsOpen]_vars

\* an error has been logged and the scheduler is in its loop, and both
\* channels are open
C23_Witness ==
  logged /\ alive /\ schedPc = "select" /\ watcherOpen /\ errorsOpen

\* the reader of connection c has left its loop on a read error
ReadFailed(c) == connPc[c] \in {"unregister", "unregistering", "done"} /\ conn[c] # "none"

\* connection c is out of the hub and its socket is closed
Dropped(c) == c \notin clients /\ conn[c] = "closed"

\* C24: when the reader of a client sees a read error or a close, the client
\* is eventually out of the membership set with its socket closed; the
\* steps of unregister touch the hub and nothing else of the program (no
\* error reaches the scheduler or Run); and once serveWs has returned no
\* broadcast sends to the client.
C24_ReadErrorDropsClient ==
  /\ \A c \in Conns : ReadFailed(c) ~> Dropped(c)
  /\ [][\A c \in Conns :
          /\ connPc[c] \in {"unregister", "unregistering"} /\ connPc'[c] # connPc[c]
               => UNCHANGED <<procVars, schedVars, queue, buildVars>>
          /\ connPc[c] = "done" /\ conn[c] # "none"
               => Dropped(c) /\ c \notin visited' \ visited]_vars

\* a reader saw the error while its client was a member, and the client was
\* then dropped by the deferred unregister
C24_Witness ==
  \E c \in Conns : connPc[c] = "done" /\ Dropped(c) /\ closes[c] = 1 /\ pass.sent[c] = 0

\* the goroutine inside register, unregister or broadcastMessage, past
\* h.mu.Lock() and before the deferred h.mu.Unlock()
InHub(g) ==
  \/ g = SchedGoroutine /\ schedPc = "sending"
  \/ \E c \in Conns : g = ServeWsGoroutine(c) /\ connPc[c] \in {"registering", "unregistering"}

\* C25: the lock is held by a goroutine exactly while it is inside register,
\* unregister or a broadcast pass, so these exclude one another and the lock
\* is not held in Upgrade, in ReadMessage, in the sleep, in the build or in
\* the select; and the membership set is changed, and ranged over, only by
\* the goroutine that holds the lock.
C25_MembershipOnlyUnderLock ==
  /\ [](\A g \in {SchedGoroutine} \cup {ServeWsGoroutine(c) : c \in Conns} :
          mu = g <=> InHub(g))
  /\ [][/\ clients' # clients => mu # MuFree /\ InHub(mu)
        /\ visited' \ visited # {} => mu = SchedGoroutine]_vars

\* a broadcast pass is under way and holds the lock, while a reader that saw
\* its connection fail waits for the lock, outside it
C25_Witness ==
  /\ mu = SchedGoroutine /\ visited # {}
  /\ \E c \in Conns : connPc[c] = "unregister" /\ c \in clients

\* the scheduler receives the event at the head of the watcher's channel
\* in this step
Receives ==
  /\ alive /\ schedPc = "select" /\ queue # <<>>
  /\ watcherOpen /\ watcherOpen'
  /\ queue' = Tail(queue)

\* event e carries none of create, write, remove, rename
MetadataOnly(e) == e.op \cap {"Create", "Write", "Remove", "Rename"} = {}

\* C26: an event that is none of create, write, remove or rename never
\* triggers a rebuild and does not change the last-build time: the scheduler
\* that receives it stays in its select, keeps no trace of it, starts no
\* sleep and no build, and leaves lastBuildTime alone; no sleep or build is
\* ever under way for such an event.
C26_MetadataEventNeverRebuilds ==
  /\ [](schedPc = "sleep" => ~MetadataOnly(cur))
  /\ [][Receives /\ MetadataOnly(Head(queue))
         => /\ schedPc' = "select"
            /\ cur' = cur /\ slept' = slept
            /\ sinceLastBuild' = sinceLastBuild
            /\ activeBuilds' = activeBuilds /\ rebuilds' = rebuilds]_vars

\* the scheduler has passed over a metadata event at a time when a change
\* would have been answered, and no rebuild has begun
C26_Witness ==
  /\ "metadata" \in ignored
  /\ schedPc = "select" /\ queue = <<>>
  /\ rebuilds.result = "none"
  /\ sinceLastBuild > DebounceDuration

\* the static pass has returned
StaticDone == staticResult.done

\* the files of the static tree
Assets == {staticJob.files[i] : i \in 1..Len(staticJob.files)}

\* the name of file f ends in a suffix of the allow-list
OnAllowList(f) ==
  /\ Len(f.path.name) > 1
  /\ f.path.name[Len(f.path.name)] \in
       {".css", ".js", ".txt", ".svg", ".png", ".jpg", ".jpeg", ".gif"}

\* the path under the output root that mirrors the path of f under the
\* static root
Mirror(f) ==
  [dirs |-> <<"public">> \o SubSeq(f.path.dirs, 2, Len(f.path.dirs)), name |-> f.path.name]

\* C27: a file whose extension is not on the allow-list is never copied and
\* is never the cause of an error; a pass that returns no error has copied
\* every file whose extension is on the list to the same relative path under
\* the output root, and nothing else; an error comes from a missing static
\* root or from a file on the list that cannot be opened.
C27_StaticCopiesAllowListOnly ==
  StaticDone =>
    /\ \A f \in Assets :
         ~OnAllowList(f) => Mirror(f) \notin staticResult.copied /\ staticResult.err # f.path
    /\ staticResult.err = NoAsset =>
         \A f \in Assets : OnAllowList(f) <=> Mirror(f) \in staticResult.copied
    /\ \A d \in staticResult.copied : \E f \in Assets : OnAllowList(f) /\ d = Mirror(f)
    /\ staticResult.err # NoAsset =>
         \/ staticJob.root = "absent"
         \/ \E f \in Assets : OnAllowList(f) /\ f.kind = "unreadable" /\ staticResult.err = f.path

\* a pass has returned no error, has copied a file of a subdirectory, and
\* has left alone a file that is off the list and could not have been opened
C27_Witness ==
  /\ StaticDone /\ staticResult.err = NoAsset
  /\ \E f \in Assets :
       /\ OnAllowList(f) /\ Len(f.path.dirs) > 1
       /\ Mirror(f) \in staticResult.copied
  /\ \E f \in Assets :
       /\ ~OnAllowList(f) /\ f.kind = "unreadable"
       /\ Mirror(f) \notin staticResult.copied

\* C28: there is no trailing-edge rebuild. A change event that the scheduler
\* receives while no more than the debounce duration has elapsed since the
\* latest rebuild returned is discarded: the scheduler stays in its select,
\* starts no sleep and no build, and keeps nothing of the event; whenever it
\* waits in select it holds no event, so nothing received earlier can cause
\* a rebuild later.
C28_NoTrailingEdgeRebuild ==
  /\ [](schedPc = "select" => cur = NoEvent)
  /\ [][Receives /\ ~MetadataOnly(Head(queue)) /\ sinceDone <= DebounceDuration
         => /\ schedPc' = "select"
            /\ cur' = NoEvent /\ slept' = slept
            /\ sinceLastBuild' = sinceLastBuild
            /\ activeBuilds' = activeBuilds /\ rebuilds' = rebuilds]_vars

\* a rebuild has returned, a burst of changes whose first event the scheduler
\* received within the interval got no build, nothing of it is pending, and
\* the interval is over
C28_Witness ==
  /\ schedPc = "select" /\ queue = <<>>
  /\ rebuilds.result \in {"ok", "err"}
  /\ sinceDone > DebounceDuration
  /\ \E i \in 1..Len(bursts) :
       /\ Complete(i)
       /\ bursts[i].taken /\ ~bursts[i].firstOpen
       /\ bursts[i].builds = 0

\* the output paths the run has created or overwritten
Overwritten == {OutputPath(buildResult.written[i]) : i \in 1..Len(buildResult.written)}

\* the source of output file o is gone from the content tree, or is a draft
\* the run skips
Orphaned(o) ==
  \/ o.src \notin DOMAIN buildJob.tree
  \/ buildJob.tree[o.src] = "draft" /\ ~isExceptionPage(TrimExt(o.src))

\* C29: a run of BuildSite with CleanDestination = false, whether it succeeds
\* or fails, removes no entry of the output tree: every path present before
\* is present after, and a file the run did not write is left as it was. So
\* the page of a source that has been deleted or has become a draft is still
\* there after the rebuild.
C29_RebuildRemovesNothing ==
  BuildDone /\ ~buildJob.clean =>
    \A o \in buildJob.prior :
      /\ \E n \in buildResult.out : n.path = o.path
      /\ o.path \notin Overwritten => o \in buildResult.out
      /\ Orphaned(o) /\ (\A q \in DOMAIN buildJob.tree : OutputPath(q) = o.path => Orphaned([src |-> q]))
           => o \in buildResult.out

\* a rebuild without cleaning has succeeded and has written a page, and the
\* page left by an earlier build for a source that is now a draft is still
\* in the output tree
C29_Witness ==
  /\ BuildOk /\ ~buildJob.clean
  /\ Written # {}
  /\ StalePage \in buildJob.prior
  /\ StalePage.src \in DOMAIN buildJob.tree
  /\ buildJob.tree[StalePage.src] = "draft"
  /\ StalePage \in buildResult.out

\* the events of the build's own writes that wait in the watcher's channel
OwnWaiting == {k \in 1..Len(queue) : queue[k].self}

\* C30: the events of a rebuild's own writes start no rebuild. They arise
\* only while the build function runs; the scheduler receives each of them
\* within the debounce interval after lastBuildTime was set for that rebuild
\* and discards it, so every sleep and every build is for an event from
\* outside, and a single outside change is answered by no more rebuilds than
\* it has events.
C30_OwnWritesStartNoRebuild ==
  /\ [](/\ schedPc = "sleep" => ~cur.self
        /\ schedPc = "select" /\ OwnWaiting # {} => sinceLastBuild <= DebounceDuration
        /\ OwnWaiting # {} => rebuilds.result # "none")
  /\ [][Receives /\ Head(queue).self
         => /\ sinceLastBuild <= DebounceDuration
            /\ schedPc' = "select"
            /\ cur' = NoEvent /\ slept' = slept
            /\ activeBuilds' = activeBuilds /\ rebuilds' = rebuilds]_vars

\* the scheduler has discarded an event of a rebuild's own writes, the
\* rebuild has returned, and the scheduler waits with nothing to receive
\* after the interval is over
C30_Witness ==
  /\ "own" \in ignored
  /\ schedPc = "select" /\ queue = <<>>
  /\ rebuilds.result \in {"ok", "err"}
  /\ sinceDone > DebounceDuration
  /\ activeBuilds = 0

\* broadcastMessage has been entered and has not returned: a send attempt
\* is under way or the loop is about to end
InPass == alive /\ schedPc = "sending"

\* C31: the sends of a broadcast are made one after another under the hub
\* lock. When every send attempt returns, the call returns, after at most one
\* attempt per member. Until it returns no register and no unregister call
\* gets past its Lock (that of the client being sent to included), the
\* membership changes only by the pass deleting the client it has just
\* failed to write to, and the scheduler receives no event, sleeps for none
\* and starts no build.
C31_PassBlocksHubAndScheduler ==
  /\ InPass ~> ~InPass
  /\ [](InPass =>
          /\ mu = SchedGoroutine
          /\ activeBuilds = 0
          /\ \A c \in Conns :
               /\ connPc[c] \notin {"registering", "unregistering"}
               /\ pass.sent[c] = IF c \in visited THEN 1 ELSE 0)
  /\ [][InPass =>
          /\ \A c \in Conns :
               connPc[c] \in {"register", "unregister"} => connPc'[c] = connPc[c]
          /\ clients' \subseteq clients
          /\ clients \ clients' \subseteq visited' \ visited
          /\ Cardinality(visited' \ visited) <= 1
          /\ schedPc' \in {"sending", "select"}
          /\ watcherOpen' => Len(queue') >= Len(queue)
          /\ cur' = cur /\ slept' = slept
          /\ activeBuilds' = activeBuilds
          /\ rebuilds'.result = rebuilds.result]_vars

\* a pass is under way with a member not yet written to whose reader has
\* seen an error and waits to unregister, another client waits to register,
\* and a change waits in the watcher's channel
C31_Witness ==
  /\ InPass
  /\ \E c \in clients \ visited : connPc[c] = "unregister"
  /\ \E c \in Conns : connPc[c] = "register"
  /\ queue # <<>>

\* a file is written in a directory made after startup, in this step
LateWrite == unbuilt' # unbuilt /\ unbuilt' # {}

\* C32: once the scheduler runs, the set of watched directories does not
\* change; a directory made after that is never in it; and a write to a file
\* in such a directory puts no event in the watcher's channel and leaves the
\* scheduler where it is, with no sleep and no build begun.
C32_WatchSetFixedAfterStartup ==
  /\ [](\A d \in lateDirs : DirString(d) \notin watchResult.watched)
  /\ [][schedPc # "none" => watchResult' = watchResult]_vars
  /\ [][LateWrite =>
          /\ queue' = queue
          /\ schedPc' = schedPc /\ cur' = cur /\ slept' = slept
          /\ sinceLastBuild' = sinceLastBuild
          /\ activeBuilds' = activeBuilds /\ rebuilds' = rebuilds]_vars

\* the rebuild for the new directory entry has returned, a file in the new
\* directory has been written since that rebuild began, and the scheduler
\* waits with nothing to receive after the interval is over
C32_Witness ==
  /\ mainPc = "serving" /\ schedPc = "select" /\ queue = <<>>
  /\ unbuilt # {}
  /\ rebuilds.result = "ok"
  /\ activeBuilds = 0
  /\ sinceLastBuild > DebounceDuration
====
